---------------------------- MODULE Spec2Model ----------------------------
(***************************************************************************)
(* A state-machine model of kr, an interactive terminal client for         *)
(* Kubernetes: the orchestrator's event loop (src/src/event_loop.rs), the  *)
(* mode-based input dispatcher (src/src/input.rs) and the log subsystem    *)
(* (src/src/app.rs, src/src/k8s/actions.rs).                                *)
(*                                                                         *)
(* Conventions.                                                            *)
(*  - Option<T> is a sequence: None is <<>>, Some(x) is <<x>>.             *)
(*  - usize indices (scroll offsets, match lines, row indices) keep the    *)
(*    0-based values of the code; a sequence is indexed at value + 1.      *)
(*  - A String whose characters matter (a log line, a search query) is a  *)
(*    sequence of ASCII codes.                                             *)
(*  - Handlers are operators from a world record [app, rt, ops] to a world *)
(*    record: app holds the fields of struct App, rt what the handlers     *)
(*    hand to the tokio runtime and to the cluster (spawned tasks and the  *)
(*    destructive calls issued), ops the names of the operations called    *)
(*    (a history of the step, which no handler reads).                     *)
(*  - Rendering reads the state, except that the table of the list can    *)
(*    move the highlighted row (draw). Every handler that changes the      *)
(*    state sets the dirty flag, so the flag is not modelled: a drawing    *)
(*    follows every handler.                                               *)
(***************************************************************************)
EXTENDS Integers, Sequences, FiniteSets, TLC

VARIABLES
    app,        \* struct App (src/src/app.rs:36-111)
    rt,         \* spawned background tasks and calls issued to the cluster
    chan,       \* the internal channel event_tx -> event_rx
    srcLog,     \* the log of the pod, as the cluster holds it
    pushedAll,  \* history: the lines pushed since the last stream_logs
    merged,     \* history: merge_log_history was called since the last stream_logs
    lastOps     \* history: the operations the last step called, with the branch taken

vars == <<app, rt, chan, srcLog, pushedAll, merged, lastOps>>

-----------------------------------------------------------------------------
(* Program constants, scaled: the code has MAX_LOG_LINES = 10,000 and a     *)
(* tail window that starts at 100 and grows by 100. The model keeps what    *)
(* the code relies on: the initial window equals the step, the capacity is  *)
(* a multiple of the step, and a session can ask for history more than      *)
(* once before the window reaches the capacity.                             *)
MAX_LOG_LINES == 3
LOG_TAIL_INIT == 1
LOG_TAIL_STEP == 1

(* The largest replica count and the longest namespace name accepted       *)
(* (input.rs handle_scale_input, is_valid_k8s_name)                         *)
MAX_REPLICAS == 1000
MAX_NAME_LEN == 63

(* The seconds after which a success and an error banner expire            *)
(* (app.rs clear_stale_messages)                                            *)
SUCCESS_SECS == 5
ERROR_SECS == 15

(* Bounds of the model. *)
MaxSrc == 4        \* lines the pod writes (SpecLog)
MaxSrcSearch == 2  \* lines the pod writes (SpecSearch)
MaxSrcRestart == 2 \* lines the pod writes (SpecRestart)
MaxChan == 1       \* messages in flight in the internal channel
MaxGen == 2        \* times the log stream is (re)started (SpecRestart)
MaxGenSearch == 1  \* times the log stream is started (SpecLog, SpecSearch)
MaxQuery == 2      \* characters of the free-text filter (SpecFilter)
MaxDigits == 4      \* digits typed into the replica prompt (SpecPrompt)
MaxTyped == 2       \* characters typed into the namespace prompt (SpecPrompt)
MaxInput == 1      \* characters typed into the log search prompt
MaxCalls == 2      \* calls to the cluster in flight
MaxTasks == 1      \* calls, describes, namespace listings and shells in flight
MaxDescribes == 1  \* kubectl describe tasks in flight
MaxNsLoads == 1    \* namespace listings in flight
MaxShells == 1     \* pseudo-terminal reader tasks alive
TermVisible == 2   \* log lines the terminal shows (height - LOG_CHROME_LINES)
ListPage == 1      \* rows a page key moves in the list (height - 8)
DescribeVisible == 1 \* lines the describe view shows (90% of the height - 2)

(* The lines a pod writes: "A" and "b". *)
LineSet == {<<65>>, <<98>>}
(* The characters typed into the log search prompt: 'A'. *)
SearchChars == {65}

None == <<>>
Some(x) == <<x>>
IsSome(o) == o # <<>>
Val(o) == o[1]

Min(a, b) == IF a <= b THEN a ELSE b
Max(a, b) == IF a >= b THEN a ELSE b
(* usize::saturating_sub *)
SatSub(a, b) == IF a >= b THEN a - b ELSE 0

(* A banner: format!(text, kind, name, n); kind is a resource kind where the *)
(* message names one ("" where it does not).                                *)
Msg(text, n) == [text |-> text, kind |-> "", name |-> <<>>, n |-> n]
MsgName(text, name) == [text |-> text, kind |-> "", name |-> name, n |-> 0]
MsgKind(text, kind, name) == [text |-> text, kind |-> kind, name |-> name, n |-> 0]

(* e.starts_with("Access denied") *)
is_access_denied(msg) == msg.text = "Access denied"

(* The operation called, for the history of the step *)
Note(w, op) == [w EXCEPT !.ops = @ \cup {op}]

-----------------------------------------------------------------------------
(* Strings *)

ToAsciiLower(c) == IF c \in 65..90 THEN c + 32 ELSE c

to_ascii_lowercase(s) == [i \in 1..Len(s) |-> ToAsciiLower(s[i])]

eq_ignore_ascii_case(w, n) ==
    /\ Len(w) = Len(n)
    /\ \A i \in 1..Len(w) : ToAsciiLower(w[i]) = ToAsciiLower(n[i])

contains_ascii_ci(haystack, needle_lower) ==
    \/ needle_lower = <<>>
    \/ \E i \in 1..(Len(haystack) - Len(needle_lower) + 1) :
          eq_ignore_ascii_case(SubSeq(haystack, i, i + Len(needle_lower) - 1),
                               needle_lower)

(* str::contains *)
contains(haystack, needle) ==
    \/ needle = <<>>
    \/ \E i \in 1..(Len(haystack) - Len(needle) + 1) :
          SubSeq(haystack, i, i + Len(needle) - 1) = needle

(* str::to_lowercase, on ASCII text *)
to_lowercase(s) == to_ascii_lowercase(s)

(* Ord for str: lexicographic on the bytes *)
StrLess(a, b) ==
    \E i \in 1..(Min(Len(a), Len(b)) + 1) :
        /\ \A j \in 1..(i - 1) : a[j] = b[j]
        /\ \/ i = Len(a) + 1 /\ i <= Len(b)
           \/ i <= Len(a) /\ i <= Len(b) /\ a[i] < b[i]

(* The strings of a set in ascending order *)
RECURSIVE SortedStrings(_)
SortedStrings(S) ==
    IF S = {} THEN <<>>
    ELSE LET m == CHOOSE x \in S : \A y \in S \ {x} : StrLess(x, y)
         IN <<m>> \o SortedStrings(S \ {m})

(* The elements of a sequence *)
Range(s) == {s[i] : i \in 1..Len(s)}

(* iter().position(|x| x == e): the first 0-based index of e in s *)
position(s, e) ==
    LET hits == {i \in 1..Len(s) : s[i] = e}
    IN IF hits = {} THEN None ELSE Some((CHOOSE i \in hits : \A j \in hits : i <= j) - 1)

(* Vec::get *)
get(s, i) == IF i < Len(s) THEN Some(s[i + 1]) ELSE None

(* String::pop / Vec::pop *)
pop(s) == IF s = <<>> THEN s ELSE SubSeq(s, 1, Len(s) - 1)

-----------------------------------------------------------------------------
(* state.rs: the namespaces remembered per context. The file it is saved to *)
(* is not modelled.                                                         *)

get_namespaces(app_state, context) ==
    IF context \in DOMAIN app_state THEN app_state[context] ELSE <<>>

(* Vec::sort of a list of distinct names *)
sort(s) == SortedStrings(Range(s))

add_namespace(app_state, context, namespace) ==
    LET entry == get_namespaces(app_state, context)
        new == IF namespace \in Range(entry) THEN entry ELSE sort(Append(entry, namespace))
    IN [c \in DOMAIN app_state \cup {context} |-> IF c = context THEN new ELSE app_state[c]]

merge_namespaces(app_state, context, discovered) ==
    LET entry == get_namespaces(app_state, context)
        new == SortedStrings(Range(entry) \cup Range(discovered))
    IN [c \in DOMAIN app_state \cup {context} |-> IF c = context THEN new ELSE app_state[c]]

-----------------------------------------------------------------------------
(* struct App: banners *)

(* message_time holds Instant::now(); the model keeps Some(Now) and lets    *)
(* the tick choose the seconds elapsed since.                               *)
Now == "now"

set_error(w, msg) ==
    [w EXCEPT !.app.last_error = Some(msg), !.app.last_success = None,
              !.app.message_time = Some(Now)]

set_success(w, msg) ==
    [w EXCEPT !.app.last_success = Some(msg), !.app.last_error = None,
              !.app.message_time = Some(Now)]

(* elapsed is t.elapsed().as_secs() *)
clear_stale_messages(w, elapsed) ==
    IF IsSome(w.app.message_time)
    THEN LET w1 == IF IsSome(w.app.last_success) /\ elapsed >= SUCCESS_SECS
                   THEN [w EXCEPT !.app.last_success = None,
                                  !.app.message_time =
                                      IF w.app.last_error = None THEN None ELSE @]
                   ELSE w
         IN IF /\ IsSome(w1.app.last_error)
               /\ ~is_access_denied(Val(w1.app.last_error))
               /\ elapsed >= ERROR_SECS
            THEN [w1 EXCEPT !.app.last_error = None, !.app.message_time = None]
            ELSE w1
    ELSE w

get_selected_resource(a) ==
    IF IsSome(a.table_state) THEN get(a.filtered_items, Val(a.table_state)) ELSE None

-----------------------------------------------------------------------------
(* struct App: tabs, the list and its filters *)

(* models.rs KubeResource: the kind, metadata.name, a pod's status.phase    *)
(* (None when absent) and a secret's data (None when absent; each entry a   *)
(* key and its bytes, which are UTF-8 text or not).                         *)
Resource(kind, name, phase, data) ==
    [kind |-> kind, name |-> name, phase |-> phase, data |-> data]

(* ops records "tab", and "tab:full" when there was something of each kind  *)
(* to clear.                                                                *)
tab_note(w) ==
    IF /\ w.app.items # <<>> /\ w.app.filtered_items # <<>>
       /\ IsSome(w.app.table_state)
       /\ w.app.selected_indices # {} /\ w.app.status_filter # {}
    THEN Note(Note(w, "tab"), "tab:full")
    ELSE Note(w, "tab")

reset_tab_state_keep_row(w) ==
    [tab_note(w) EXCEPT
              !.app.items = <<>>,
              !.app.filtered_items = <<>>,
              !.app.selected_indices = {},
              !.app.status_filter = {}]

reset_tab_state(w) ==
    [tab_note(w) EXCEPT
              !.app.items = <<>>,
              !.app.filtered_items = <<>>,
              !.app.table_state = None,
              !.app.selected_indices = {},
              !.app.status_filter = {}]

next_tab(w) ==
    reset_tab_state([w EXCEPT !.app.active_tab =
        CASE @ = "Pod" -> "Deployment"
          [] @ = "Deployment" -> "Secret"
          [] @ = "Secret" -> "Pod"])

prev_tab(w) ==
    reset_tab_state([w EXCEPT !.app.active_tab =
        CASE @ = "Pod" -> "Secret"
          [] @ = "Deployment" -> "Pod"
          [] @ = "Secret" -> "Deployment"])

(* String::from_utf8(bytes).unwrap_or("<binary>") *)
decode_value(entry) ==
    IF entry.utf8 THEN entry.bytes ELSE <<60, 98, 105, 110, 97, 114, 121, 62>>

decode_selected_secret(w) ==
    LET sel == get_selected_resource(w.app) IN
    IF IsSome(sel) /\ Val(sel).kind = "Secret"
    THEN IF IsSome(Val(sel).data)
         THEN LET data == Val(Val(sel).data) IN
              [w EXCEPT !.app.selected_secret_decoded =
                  Some([i \in 1..Len(data) |->
                          [key |-> data[i].key, val |-> decode_value(data[i])]])]
         ELSE [w EXCEPT !.app.selected_secret_decoded = Some(<<>>)]
    ELSE w

pod_phase(p) == IF IsSome(p.phase) THEN Val(p.phase) ELSE "Unknown"

(* The phase names, as the bytes that order them (BTreeMap<String, _>) *)
PhaseCode ==
    [Failed |-> <<70>>, Pending |-> <<80>>, Running |-> <<82>>, Unknown |-> <<85>>]

build_status_filter_items(w) ==
    LET pods == SelectSeq(w.app.items, LAMBDA r : r.kind = "Pod")
        phases == {pod_phase(pods[i]) : i \in 1..Len(pods)}
        order == SortedStrings({PhaseCode[ph] : ph \in phases})
        name_of(code) == CHOOSE ph \in phases : PhaseCode[ph] = code
        count(ph) == Cardinality({i \in 1..Len(pods) : pod_phase(pods[i]) = ph})
        items == [i \in 1..Len(order) |->
                     [phase |-> name_of(order[i]), count |-> count(name_of(order[i]))]]
    IN [w EXCEPT !.app.status_filter_items = items,
                 !.app.status_filter_selected =
                     {i - 1 : i \in {j \in 1..Len(items) :
                                        items[j].phase \in w.app.status_filter}}]

(* An item passes when it passes either of the two filters *)
update_filter_any(w) ==
    LET a == w.app
        has_status == a.active_tab = "Pod" /\ a.status_filter # {}
        has_query == a.filter_query # <<>>
        query == to_lowercase(a.filter_query)
        keep(item) ==
            \/ has_status /\ item.kind = "Pod" /\ pod_phase(item) \in a.status_filter
            \/ has_query /\ contains(to_lowercase(item.name), query)
    IN [w EXCEPT !.app.selected_indices = {},
                 !.app.filtered_items =
                     IF ~has_status /\ ~has_query THEN a.items
                     ELSE SelectSeq(a.items, keep)]

update_filter(w) ==
    LET a == w.app
        has_status == a.active_tab = "Pod" /\ a.status_filter # {}
        has_query == a.filter_query # <<>>
        query == to_lowercase(a.filter_query)
        keep(item) ==
            IF has_status /\ item.kind = "Pod" /\ pod_phase(item) \notin a.status_filter
            THEN FALSE
            ELSE IF has_query THEN contains(to_lowercase(item.name), query)
            ELSE TRUE
    IN [w EXCEPT !.app.selected_indices = {},
                 !.app.filtered_items =
                     IF ~has_status /\ ~has_query THEN a.items
                     ELSE SelectSeq(a.items, keep)]

(* Store::state() of the active tab's store, sorted by name. Names are      *)
(* unique in a namespace.                                                   *)
store_of(a) ==
    CASE a.active_tab = "Pod" -> a.pod_store
      [] a.active_tab = "Deployment" -> a.deployment_store
      [] a.active_tab = "Secret" -> a.secret_store

sort_by_name(S) ==
    LET names == SortedStrings({r.name : r \in S})
    IN [i \in 1..Len(names) |-> CHOOSE r \in S : r.name = names[i]]

refresh_items(w) ==
    LET store == store_of(w.app)
        items == IF IsSome(store)
                 THEN sort_by_name({r \in Val(store) : r.kind = w.app.active_tab})
                 ELSE <<>>
    IN update_filter([w EXCEPT !.app.items = items])

update_namespace_filter(w) ==
    LET a == w.app
        query == to_lowercase(a.namespace_input)
        filtered == IF a.namespace_input = <<>> THEN a.available_namespaces
                    ELSE SelectSeq(a.available_namespaces,
                                   LAMBDA ns : contains(to_lowercase(ns), query))
    IN [w EXCEPT !.app.filtered_namespaces = filtered,
                 !.app.popup_state = IF filtered = <<>> THEN None ELSE Some(0)]

(* load_namespaces: a task lists the namespaces of the cluster *)
load_namespaces(w) ==
    [w EXCEPT !.rt.nsloads = Append(@, [ctx |-> w.app.current_context,
                                        current_ns |-> w.app.current_namespace])]

(* spawn_pty_session: the pseudo-terminal and the command start or fail;    *)
(* on success a blocking task reads the terminal.                           *)
spawn_pty_session(w) ==
    IF ~w.env.pty_ok
    THEN set_error(w, Msg("Failed to open PTY", 0))
    ELSE [w EXCEPT !.rt.shells = @ + 1,
                   !.app.shell_session = TRUE,
                   !.app.mode = "ShellView"]

start_shell(w, pod_name, namespace) == spawn_pty_session(w)

start_kubectl_edit(w, kind, name, namespace) == spawn_pty_session(w)

-----------------------------------------------------------------------------
(* struct App: the log subsystem *)

log_visible_height == TermVisible

(* A scroll that puts the line at the top of the view *)
scroll_to_line_top(w, idx, visible) ==
    [w EXCEPT !.app.log_scroll_offset = Some(idx)]

scroll_to_line(w, idx, visible) ==
    LET len == Len(w.app.log_buffer)
        centered == SatSub(idx, visible \div 2)
        max == SatSub(len, visible)
    IN [w EXCEPT !.app.log_scroll_offset = Some(Min(centered, max))]

(* AbortHandle::abort on a task of the multi-threaded runtime: a task       *)
(* suspended at an await is dropped, a task that a worker thread is polling *)
(* is cancelled when it next yields. The follow task is taken to be         *)
(* suspended (what it sent before the abort stays in the channel); an       *)
(* aborted history task is kept, marked ab, until it is seen to be          *)
(* cancelled or has finished the poll it is in, which sends its response.   *)
AbortLive(live, handle) == {t \in live : Some(t.gen) # handle}

AbortHist(hist, handle) ==
    {IF Some([gen |-> t.gen, tail |-> t.tail]) = handle THEN [t EXCEPT !.ab = TRUE] ELSE t :
        t \in hist}

(* A handle of a finished task aborts nothing. *)
abort_log_stream(w) ==
    [w EXCEPT !.rt.live = AbortLive(@, w.app.log_task),
              !.rt.hist = AbortHist(@, w.app.log_history_task),
              !.app.log_task = None,
              !.app.log_history_task = None,
              !.app.log_search_pending = FALSE]

(* A faulty variant: the generation is not advanced *)
next_generation_same(g) == g

next_generation(g) == g + 1

(* stream_logs starts a log session: the old tasks are aborted, the buffer, *)
(* the search and the tail window reset, a follow task spawned under a new  *)
(* generation. rt.fetches counts the history fetches of the session.        *)
stream_logs(w, pod_name, namespace) ==
    LET w1 == abort_log_stream(Note(w, "start"))
        gen == next_generation(w1.app.log_generation)
    IN [w1 EXCEPT !.app.log_buffer = <<>>,
                  !.app.log_scroll_offset = None,
                  !.app.log_tail_lines = LOG_TAIL_INIT,
                  !.app.log_loading_history = FALSE,
                  !.app.log_generation = gen,
                  !.app.log_history_exhausted = FALSE,
                  !.app.log_search_query = <<>>,
                  !.app.log_search_input = <<>>,
                  !.app.log_search_match_line = None,
                  !.app.log_search_pending = FALSE,
                  !.app.log_pod_name = pod_name,
                  !.app.log_namespace = namespace,
                  !.app.mode = "LogView",
                  !.rt.live = @ \cup {[gen |-> gen, st |-> "connect", pos |-> 0,
                                       tail |-> LOG_TAIL_INIT]},
                  !.rt.fetches = 0,
                  !.app.log_task = Some(gen)]

(* A faulty variant: the tail window is at capacity one step late *)
tail_at_capacity_late(tail_lines) == tail_lines >= MAX_LOG_LINES + LOG_TAIL_STEP

(* A faulty variant: the tail window is never seen to be at capacity *)
tail_at_capacity_never(tail_lines) == FALSE

tail_at_capacity(tail_lines) == tail_lines >= MAX_LOG_LINES

(* A faulty variant: the tail window grows by two steps *)
grown_tail_twice(tail_lines) == tail_lines + 2 * LOG_TAIL_STEP

grown_tail(tail_lines) == tail_lines + LOG_TAIL_STEP

load_more_history(w) ==
    IF w.app.log_loading_history \/ w.app.log_history_exhausted
    THEN Note(w, "request:skip")
    ELSE IF tail_at_capacity(w.app.log_tail_lines)
    THEN [Note(w, "request:cap") EXCEPT !.app.log_history_exhausted = TRUE]
    ELSE LET tail == grown_tail(w.app.log_tail_lines)
             task == [gen |-> w.app.log_generation, tail |-> tail]
         IN [Note(w, "request:fetch") EXCEPT
                      !.app.log_loading_history = TRUE,
                      !.app.log_tail_lines = tail,
                      !.rt.hist = @ \cup {[gen |-> task.gen, tail |-> task.tail,
                                            ab |-> FALSE]},
                      !.rt.fetches = @ + 1,
                      !.app.log_history_task = Some(task)]

(* The indices 0..new_line_count-1 whose line contains the query. *)
MatchesBelow(a, n) ==
    {i \in 0..(n - 1) : contains_ascii_ci(a.log_buffer[i + 1], a.log_search_query)}

SetMax(S) == CHOOSE x \in S : \A y \in S : y <= x
SetMin(S) == CHOOSE x \in S : \A y \in S : x <= y

(* A faulty variant: a search that finds nothing in the new lines says so   *)
(* only when history is exhausted.                                          *)
resolve_pending_search_silent(w, new_line_count) ==
    IF ~w.app.log_search_pending THEN w
    ELSE LET w1 == [w EXCEPT !.app.log_search_pending = FALSE] IN
         IF new_line_count = 0
         THEN IF w1.app.log_history_exhausted
              THEN set_error(w1, Msg("Not found", 0))
              ELSE w1
         ELSE IF w1.app.log_search_query = <<>> THEN w1
         ELSE LET found == MatchesBelow(w1.app, new_line_count) IN
              IF found # {}
              THEN scroll_to_line(
                       [Note(w1, "resolve:found") EXCEPT
                            !.app.log_search_match_line = Some(SetMax(found))],
                       SetMax(found), log_visible_height)
              ELSE IF w1.app.log_history_exhausted
              THEN set_error(w1, Msg("Not found", 0))
              ELSE w1

resolve_pending_search(w, new_line_count) ==
    IF ~w.app.log_search_pending THEN w
    ELSE LET w1 == [w EXCEPT !.app.log_search_pending = FALSE] IN
         IF new_line_count = 0
         THEN IF w1.app.log_history_exhausted
              THEN set_error(w1, Msg("Not found", 0))
              ELSE w1
         ELSE IF w1.app.log_search_query = <<>> THEN w1
         ELSE LET found == MatchesBelow(w1.app, new_line_count) IN
              IF found # {}
              THEN scroll_to_line(
                       [Note(w1, "resolve:found") EXCEPT
                            !.app.log_search_match_line = Some(SetMax(found))],
                       SetMax(found), log_visible_height)
              ELSE IF w1.app.log_history_exhausted
              THEN set_error(w1, Msg("Not found", 0))
              ELSE set_success(w1, Msg("Not found in loaded lines, press n to load more",
                                       Len(w1.app.log_buffer)))

(* A faulty variant: the first occurrence (position) instead of the last *)
overlap_idx_first(buffer, lines) ==
    IF buffer = <<>> THEN Len(lines)
    ELSE LET hits == {i \in 0..(Len(lines) - 1) : lines[i + 1] = buffer[1]} IN
         IF hits = {} THEN Len(lines) ELSE SetMin(hits)

(* lines.iter().rposition(|l| l == first), 0-based; lines.len() when the    *)
(* buffer is empty or its first line does not occur.                        *)
overlap_idx(buffer, lines) ==
    IF buffer = <<>> THEN Len(lines)
    ELSE LET hits == {i \in 0..(Len(lines) - 1) : lines[i + 1] = buffer[1]} IN
         IF hits = {} THEN Len(lines) ELSE SetMax(hits)

(* A faulty variant: no response is taken to be stale *)
is_stale_never(generation, log_generation) == FALSE

is_stale(generation, log_generation) == generation # log_generation

(* A faulty variant: the prepended slice is not capped *)
prepend_count_uncapped(ov, available) == ov

prepend_count(ov, available) == Min(ov, available)

merge_log_history(w, generation, lines) ==
    IF is_stale(generation, w.app.log_generation)
    THEN [Note(w, "merge:stale") EXCEPT !.app.log_loading_history = FALSE]
    ELSE
    LET w1 == IF Len(lines) < w.app.log_tail_lines
              THEN [w EXCEPT !.app.log_history_exhausted = TRUE] ELSE w
        ov == overlap_idx(w1.app.log_buffer, lines)
        available == SatSub(MAX_LOG_LINES, Len(w1.app.log_buffer))
        count == prepend_count(ov, available)
    IN IF count = 0
       THEN resolve_pending_search(
                [Note(w1, "merge:none") EXCEPT !.app.log_history_exhausted = TRUE,
                                             !.app.log_loading_history = FALSE], 0)
       ELSE
       LET start == ov - count
           w2 == [Note(IF count < ov THEN Note(w1, "merge:capped") ELSE w1,
                       "merge:prepend") EXCEPT
                    !.app.log_buffer = SubSeq(lines, start + 1, ov) \o @,
                    !.app.log_scroll_offset =
                        IF IsSome(@) THEN Some(Val(@) + count) ELSE @,
                    !.app.log_search_match_line =
                        IF IsSome(@) THEN Some(Val(@) + count) ELSE @,
                    !.app.log_loading_history = FALSE]
       IN resolve_pending_search(w2, count)

(* A faulty variant: a full buffer evicts nothing *)
push_log_line_keep(w, line) == [Note(w, "push") EXCEPT !.app.log_buffer = Append(@, line)]

(* A faulty variant: an eviction leaves a paused offset where it was *)
push_log_line_drift(w, line) ==
    LET w1 == IF Len(w.app.log_buffer) >= MAX_LOG_LINES
              THEN [Note(w, "push:evict") EXCEPT !.app.log_buffer = Tail(@)]
              ELSE Note(w, "push")
    IN [w1 EXCEPT !.app.log_buffer = Append(@, line)]

push_log_line(w, line) ==
    LET w1 == IF Len(w.app.log_buffer) >= MAX_LOG_LINES
              THEN [Note(w, "push:evict") EXCEPT
                             !.app.log_buffer = Tail(@),
                             !.app.log_scroll_offset =
                                 IF IsSome(@) THEN Some(SatSub(Val(@), 1)) ELSE @]
              ELSE Note(w, "push")
    IN [w1 EXCEPT !.app.log_buffer = Append(@, line)]

log_search_next_with_height(w, visible) ==
    IF w.app.log_search_query = <<>> \/ w.app.log_buffer = <<>> THEN w
    ELSE
    LET w1 == [w EXCEPT !.app.log_search_pending = FALSE]
        a == w1.app
        len == Len(a.log_buffer)
        start == IF IsSome(a.log_search_match_line) /\ Val(a.log_search_match_line) >= 1
                 THEN Val(a.log_search_match_line) - 1
                 ELSE IF IsSome(a.log_scroll_offset)
                      THEN SatSub(Min(Val(a.log_scroll_offset) + visible, len), 1)
                      ELSE SatSub(len, 1)
        found == MatchesBelow(a, start + 1)
    IN IF found # {}
       THEN scroll_to_line([Note(w1, "search:found") EXCEPT
                                !.app.log_search_match_line = Some(SetMax(found))],
                           SetMax(found), visible)
       ELSE IF a.log_history_exhausted
       THEN set_error(w1, Msg("No more matches", 0))
       ELSE load_more_history([w1 EXCEPT !.app.log_search_pending = TRUE])

log_search_next(w) == log_search_next_with_height(w, log_visible_height)

(* A variant that asks for history when nothing is found, as next does *)
log_search_prev_with_height_pending(w, visible) ==
    IF w.app.log_search_query = <<>> \/ w.app.log_buffer = <<>> THEN w
    ELSE
    LET w1 == [w EXCEPT !.app.log_search_pending = FALSE]
        a == w1.app
        len == Len(a.log_buffer)
        start == IF IsSome(a.log_search_match_line)
                 THEN Val(a.log_search_match_line) + 1
                 ELSE IF IsSome(a.log_scroll_offset)
                      THEN Val(a.log_scroll_offset)
                      ELSE SatSub(len, visible)
        found == {i \in MatchesBelow(a, len) : i >= start}
    IN IF found # {}
       THEN scroll_to_line([Note(w1, "search:found") EXCEPT
                                !.app.log_search_match_line = Some(SetMin(found))],
                           SetMin(found), visible)
       ELSE IF a.log_history_exhausted
       THEN set_error(w1, Msg("No more matches", 0))
       ELSE load_more_history([w1 EXCEPT !.app.log_search_pending = TRUE])

log_search_prev_with_height(w, visible) ==
    IF w.app.log_search_query = <<>> \/ w.app.log_buffer = <<>> THEN w
    ELSE
    LET w1 == [w EXCEPT !.app.log_search_pending = FALSE]
        a == w1.app
        len == Len(a.log_buffer)
        start == IF IsSome(a.log_search_match_line)
                 THEN Val(a.log_search_match_line) + 1
                 ELSE IF IsSome(a.log_scroll_offset)
                      THEN Val(a.log_scroll_offset)
                      ELSE SatSub(len, visible)
        found == {i \in MatchesBelow(a, len) : i >= start}
    IN IF found # {}
       THEN scroll_to_line([Note(w1, "search:found") EXCEPT
                                !.app.log_search_match_line = Some(SetMin(found))],
                           SetMin(found), visible)
       ELSE set_error(w1, Msg("No more matches", 0))

log_search_prev(w) == log_search_prev_with_height(w, log_visible_height)

-----------------------------------------------------------------------------
(* Key events (crossterm KeyEvent): a code, the character of a Char key,    *)
(* and the CONTROL modifier.                                                *)

Ord == [q |-> 113, n |-> 110, N |-> 78, j |-> 106, k |-> 107, G |-> 71, g |-> 103,
        slash |-> 47, l |-> 108, y |-> 121, Y |-> 89, A |-> 65, a |-> 97, c |-> 99,
        f |-> 102, s |-> 115, D |-> 68, S |-> 83, r |-> 114, d |-> 100, e |-> 101,
        x |-> 120, space |-> 32, hyphen |-> 45, zero |-> 48, nine |-> 57]

Key(code) == [code |-> code, ch |-> 0, ctrl |-> FALSE]
Char(c) == [code |-> "Char", ch |-> c, ctrl |-> FALSE]
Ctrl(c) == [code |-> "Char", ch |-> c, ctrl |-> TRUE]
IsChar(key, c) == key.code = "Char" /\ key.ch = c

is_ascii_digit(c) == c \in 48..57
is_ascii_lowercase(c) == c \in 97..122
is_ascii_alphanumeric(c) == c \in 48..57 \/ c \in 65..90 \/ c \in 97..122

-----------------------------------------------------------------------------
(* input.rs: the context and namespace popups *)

(* ListState::selected().map(|i| i.saturating_sub(1)).unwrap_or(0) *)
popup_up(sel) == IF IsSome(sel) THEN Some(SatSub(Val(sel), 1)) ELSE Some(0)

(* ListState::selected().map(|i| (i + 1).min(len.saturating_sub(1))).unwrap_or(0) *)
popup_down(sel, len) ==
    IF IsSome(sel) THEN Some(Min(Val(sel) + 1, SatSub(len, 1))) ELSE Some(0)

handle_popup_input(w, key) ==
    LET len == Len(w.app.available_contexts) IN
    CASE key.code = "Esc" -> [w EXCEPT !.app.mode = "List"]
      [] key.code = "Enter" ->
           LET ctx == IF IsSome(w.app.popup_state)
                      THEN get(w.app.available_contexts, Val(w.app.popup_state))
                      ELSE None
           IN [w EXCEPT !.app.pending_context = IF IsSome(ctx) THEN ctx ELSE @,
                        !.app.mode = "List"]
      [] key.code = "Up" \/ IsChar(key, Ord.k) ->
           [w EXCEPT !.app.popup_state = popup_up(@)]
      [] key.code = "Down" \/ IsChar(key, Ord.j) ->
           [w EXCEPT !.app.popup_state = popup_down(@, len)]
      [] OTHER -> w

(* The name without the test of its last character *)
is_valid_k8s_name_open_end(s) ==
    /\ s # <<>>
    /\ Len(s) <= MAX_NAME_LEN
    /\ \A i \in 1..Len(s) :
          is_ascii_lowercase(s[i]) \/ is_ascii_digit(s[i]) \/ s[i] = Ord.hyphen
    /\ is_ascii_alphanumeric(s[1])

is_valid_k8s_name(s) ==
    /\ s # <<>>
    /\ Len(s) <= MAX_NAME_LEN
    /\ \A i \in 1..Len(s) :
          is_ascii_lowercase(s[i]) \/ is_ascii_digit(s[i]) \/ s[i] = Ord.hyphen
    /\ is_ascii_alphanumeric(s[1])
    /\ is_ascii_alphanumeric(s[Len(s)])

select_namespace(w, ns) ==
    LET w1 == IF ns # <<>>
              THEN [w EXCEPT
                      !.app.current_namespace = ns,
                      !.app.app_state = add_namespace(@, w.app.current_context, ns),
                      !.app.available_namespaces =
                          IF ns \in Range(@) THEN @ ELSE sort(Append(@, ns))]
              ELSE w
    IN [w1 EXCEPT !.app.namespace_input = <<>>,
                  !.app.namespace_typing = FALSE,
                  !.app.mode = "List"]

(* popup_state.selected().and_then(|i| filtered_namespaces.get(i)) *)
selected_namespace(a) ==
    IF IsSome(a.popup_state) THEN get(a.filtered_namespaces, Val(a.popup_state)) ELSE None

handle_namespace_input(w, key) ==
    LET len == Len(w.app.filtered_namespaces) IN
    IF w.app.namespace_typing
    THEN CASE key.code = "Esc" ->
                LET idx == position(w.app.available_namespaces, w.app.current_namespace) IN
                [w EXCEPT !.app.namespace_input = <<>>,
                          !.app.namespace_typing = FALSE,
                          !.app.filtered_namespaces = w.app.available_namespaces,
                          !.app.popup_state = IF IsSome(idx) THEN idx ELSE Some(0)]
           [] key.code = "Enter" ->
                LET sel == selected_namespace(w.app)
                    ns == IF IsSome(sel) THEN Val(sel) ELSE w.app.namespace_input
                    w0 == Note(w, "ns:enter")
                IN IF is_valid_k8s_name(ns)
                   THEN select_namespace(w0, ns)
                   ELSE set_error(w0, Msg("Invalid namespace name", 0))
           [] key.code = "Up" -> [w EXCEPT !.app.popup_state = popup_up(@)]
           [] key.code = "Down" ->
                IF len > 0 THEN [w EXCEPT !.app.popup_state = popup_down(@, len)] ELSE w
           [] key.code = "Backspace" ->
                update_namespace_filter([w EXCEPT !.app.namespace_input = pop(@)])
           [] key.code = "Char" ->
                update_namespace_filter([w EXCEPT !.app.namespace_input = Append(@, key.ch)])
           [] OTHER -> w
    ELSE CASE key.code = "Esc" ->
                [w EXCEPT !.app.namespace_input = <<>>,
                          !.app.namespace_typing = FALSE,
                          !.app.mode = "List"]
           [] IsChar(key, Ord.slash) ->
                [w EXCEPT !.app.namespace_typing = TRUE, !.app.namespace_input = <<>>]
           [] key.code = "Enter" ->
                LET sel == selected_namespace(w.app) IN
                IF IsSome(sel) THEN select_namespace(w, Val(sel)) ELSE w
           [] key.code = "Up" \/ IsChar(key, Ord.k) ->
                [w EXCEPT !.app.popup_state = popup_up(@)]
           [] key.code = "Down" \/ IsChar(key, Ord.j) ->
                IF len > 0 THEN [w EXCEPT !.app.popup_state = popup_down(@, len)] ELSE w
           [] OTHER -> w

-----------------------------------------------------------------------------
(* input.rs: the log viewer *)

log_max_scroll(a) == SatSub(Len(a.log_buffer), TermVisible)

handle_log_input(w, key) ==
    LET page_size == TermVisible
        off == w.app.log_scroll_offset
        max == log_max_scroll(w.app)
    IN
    CASE IsChar(key, Ord.q) ->
           [abort_log_stream(w) EXCEPT !.app.mode = "List"]
      [] key.code = "Esc" ->
           IF w.app.log_search_query # <<>>
           THEN [w EXCEPT !.app.log_search_query = <<>>,
                          !.app.log_search_match_line = None,
                          !.app.log_search_pending = FALSE]
           ELSE [abort_log_stream(w) EXCEPT !.app.mode = "List"]
      [] IsChar(key, Ord.slash) ->
           [w EXCEPT !.app.log_search_input = w.app.log_search_query,
                     !.app.mode = "LogSearchInput"]
      [] IsChar(key, Ord.n) -> log_search_next(w)
      [] IsChar(key, Ord.N) -> log_search_prev(w)
      [] IsChar(key, Ord.j) \/ key.code = "Down" ->
           IF IsSome(off)
           THEN IF Val(off) < max
                THEN [w EXCEPT !.app.log_scroll_offset = Some(Val(off) + 1)]
                ELSE w
           ELSE IF max > 0 THEN [w EXCEPT !.app.log_scroll_offset = Some(max)] ELSE w
      [] IsChar(key, Ord.k) \/ key.code = "Up" ->
           IF IsSome(off)
           THEN IF Val(off) > 0
                THEN [w EXCEPT !.app.log_scroll_offset = Some(Val(off) - 1)]
                ELSE load_more_history(w)
           ELSE IF max > 0
                THEN [w EXCEPT !.app.log_scroll_offset = Some(SatSub(max, 1))]
                ELSE w
      [] key.code = "PageDown" ->
           IF IsSome(off)
           THEN [w EXCEPT !.app.log_scroll_offset = Some(Min(Val(off) + page_size, max))]
           ELSE IF max > 0 THEN [w EXCEPT !.app.log_scroll_offset = Some(max)] ELSE w
      [] key.code = "PageUp" ->
           IF IsSome(off)
           THEN IF Val(off) = 0
                THEN load_more_history(w)
                ELSE [w EXCEPT !.app.log_scroll_offset = Some(SatSub(Val(off), page_size))]
           ELSE IF max > 0
                THEN [w EXCEPT !.app.log_scroll_offset = Some(SatSub(max, page_size))]
                ELSE w
      [] IsChar(key, Ord.G) -> [w EXCEPT !.app.log_scroll_offset = None]
      [] IsChar(key, Ord.g) -> [w EXCEPT !.app.log_scroll_offset = Some(0)]
      [] OTHER -> w

handle_log_search_input(w, key) ==
    CASE key.code = "Enter" ->
           log_search_next(
               [w EXCEPT !.app.log_search_query = to_ascii_lowercase(w.app.log_search_input),
                         !.app.log_search_match_line = None,
                         !.app.mode = "LogView"])
      [] key.code = "Esc" ->
           [w EXCEPT !.app.log_search_input = <<>>, !.app.mode = "LogView"]
      [] key.code = "Backspace" ->
           [w EXCEPT !.app.log_search_input =
                        IF @ = <<>> THEN @ ELSE SubSeq(@, 1, Len(@) - 1)]
      [] key.code = "Char" ->
           [w EXCEPT !.app.log_search_input = Append(@, key.ch)]
      [] OTHER -> w

-----------------------------------------------------------------------------
(* input.rs: the resource list *)

next_row(w) ==
    LET len == Len(w.app.filtered_items) IN
    IF len = 0 THEN w
    ELSE [w EXCEPT !.app.table_state = IF IsSome(@) THEN Some((Val(@) + 1) % len)
                                        ELSE Some(0)]

prev_row(w) ==
    LET len == Len(w.app.filtered_items) IN
    IF len = 0 THEN w
    ELSE [w EXCEPT !.app.table_state =
             IF IsSome(@) THEN (IF Val(@) = 0 THEN Some(len - 1) ELSE Some(Val(@) - 1))
             ELSE Some(0)]

(* The elements of a set of indices in ascending order (sort_unstable) *)
RECURSIVE sort_unstable(_)
sort_unstable(S) ==
    IF S = {} THEN <<>> ELSE <<SetMin(S)>> \o sort_unstable(S \ {SetMin(S)})

(* The names of the rows at the given indices, skipping indices past the end *)
RECURSIVE names_at(_, _)
names_at(items, indices) ==
    IF indices = <<>> THEN <<>>
    ELSE (IF Head(indices) < Len(items) THEN <<items[Head(indices) + 1].name>> ELSE <<>>)
         \o names_at(items, Tail(indices))

DeleteResource(count, kind, names) ==
    [type |-> "DeleteResource", count |-> count, kind |-> kind, names |-> names,
     name |-> <<>>, replicas |-> 0]
RestartDeployment(name) ==
    [type |-> "RestartDeployment", count |-> 0, kind |-> "", names |-> <<>>,
     name |-> name, replicas |-> 0]
ScaleDeployment(name, replicas) ==
    [type |-> "ScaleDeployment", count |-> 0, kind |-> "", names |-> <<>>,
     name |-> name, replicas |-> replicas]

(* The kubectl describe task spawned for the highlighted resource *)
spawn_describe(w, kind, name) ==
    [w EXCEPT !.rt.describes = Append(@, [kind |-> kind, name |-> name,
                                          ns |-> w.app.current_namespace,
                                          ctx |-> w.app.current_context])]

handle_global_input(w, key) ==
    LET a == w.app
        sel == get_selected_resource(a)
        len == Len(a.filtered_items)
        deletable == a.active_tab = "Pod" \/ a.active_tab = "Deployment"
    IN
    CASE IsChar(key, Ord.q) -> [w EXCEPT !.app.should_quit = TRUE]
      [] key.code = "Tab" -> next_tab(w)
      [] key.code = "BackTab" -> prev_tab(w)
      [] IsChar(key, Ord.c) /\ key.ctrl -> [w EXCEPT !.app.should_quit = TRUE]
      [] IsChar(key, Ord.c) ->
           LET idx == position(a.available_contexts, a.current_context) IN
           [w EXCEPT !.app.popup_state = IF IsSome(idx) THEN idx ELSE Some(0),
                     !.app.mode = "ContextSelect"]
      [] IsChar(key, Ord.n) ->
           LET idx == position(a.available_namespaces, a.current_namespace) IN
           [w EXCEPT !.app.namespace_input = <<>>,
                     !.app.namespace_typing = FALSE,
                     !.app.filtered_namespaces = a.available_namespaces,
                     !.app.popup_state =
                         IF IsSome(idx) THEN idx
                         ELSE IF a.available_namespaces = <<>> THEN None ELSE Some(0),
                     !.app.mode = "NamespaceSelect"]
      [] IsChar(key, Ord.slash) -> [w EXCEPT !.app.mode = "FilterInput"]
      [] IsChar(key, Ord.j) \/ key.code = "Down" -> next_row(w)
      [] IsChar(key, Ord.k) \/ key.code = "Up" -> prev_row(w)
      [] IsChar(key, Ord.g) ->
           IF len > 0 THEN [w EXCEPT !.app.table_state = Some(0)] ELSE w
      [] IsChar(key, Ord.G) ->
           IF len > 0 THEN [w EXCEPT !.app.table_state = Some(len - 1)] ELSE w
      [] key.code = "PageDown" ->
           IF len > 0
           THEN [w EXCEPT !.app.table_state =
                    Some(Min((IF IsSome(@) THEN Val(@) ELSE 0) + ListPage, len - 1))]
           ELSE w
      [] key.code = "PageUp" ->
           IF len > 0
           THEN [w EXCEPT !.app.table_state =
                    Some(SatSub(IF IsSome(@) THEN Val(@) ELSE 0, ListPage))]
           ELSE w
      [] IsChar(key, Ord.space) /\ a.active_tab # "Secret" ->
           IF IsSome(a.table_state)
           THEN [w EXCEPT !.app.selected_indices =
                    IF Val(a.table_state) \in @ THEN @ \ {Val(a.table_state)}
                    ELSE @ \cup {Val(a.table_state)}]
           ELSE w
      [] IsChar(key, Ord.a) /\ key.ctrl ->
           [w EXCEPT !.app.selected_indices =
                IF Cardinality(@) = len THEN {} ELSE 0..(len - 1)]
      [] IsChar(key, Ord.f) /\ a.active_tab = "Pod" ->
           LET w1 == build_status_filter_items(w) IN
           [w1 EXCEPT !.app.status_filter_state =
                         IF w1.app.status_filter_items = <<>> THEN None ELSE Some(0),
                      !.app.mode = "StatusFilter"]
      [] IsChar(key, Ord.l) /\ a.active_tab = "Pod" ->
           IF IsSome(sel)
           THEN stream_logs(w, Val(sel).name, a.current_namespace)
           ELSE set_error(w, Msg("No pod selected", 0))
      [] IsChar(key, Ord.s) /\ a.active_tab = "Pod" ->
           IF IsSome(sel)
           THEN start_shell(w, Val(sel).name, a.current_namespace)
           ELSE set_error(w, Msg("No pod selected", 0))
      [] (key.code = "Delete" \/ IsChar(key, Ord.D)) /\ deletable ->
           LET names == IF a.selected_indices = {}
                        THEN (IF IsSome(sel) THEN <<Val(sel).name>> ELSE <<>>)
                        ELSE names_at(a.filtered_items, sort_unstable(a.selected_indices))
               kind == IF a.active_tab = "Pod" THEN "pod(s)" ELSE "deployment(s)"
           IN IF Len(names) > 0
              THEN [w EXCEPT !.app.pending_action =
                                Some(DeleteResource(Len(names), kind, names)),
                             !.app.mode = "Confirm"]
              ELSE set_error(w, Msg("No resource selected", 0))
      [] IsChar(key, Ord.S) /\ a.active_tab = "Deployment" ->
           IF IsSome(sel)
           THEN [w EXCEPT !.app.scale_input = <<>>, !.app.mode = "ScaleInput"]
           ELSE set_error(w, Msg("No deployment selected", 0))
      [] IsChar(key, Ord.r) /\ a.active_tab = "Deployment" ->
           IF IsSome(sel)
           THEN [w EXCEPT !.app.pending_action = Some(RestartDeployment(Val(sel).name)),
                          !.app.mode = "Confirm"]
           ELSE set_error(w, Msg("No deployment selected", 0))
      [] IsChar(key, Ord.d) /\ deletable ->
           IF IsSome(sel)
           THEN spawn_describe(w, IF a.active_tab = "Pod" THEN "pod" ELSE "deployment",
                               Val(sel).name)
           ELSE set_error(w, Msg("No resource selected", 0))
      [] IsChar(key, Ord.e) /\ deletable ->
           IF IsSome(sel)
           THEN start_kubectl_edit(w, IF a.active_tab = "Pod" THEN "pod" ELSE "deployment",
                                   Val(sel).name, a.current_namespace)
           ELSE set_error(w, Msg("No resource selected", 0))
      [] (key.code = "Enter" \/ IsChar(key, Ord.x)) /\ a.active_tab = "Secret" ->
           LET w1 == decode_selected_secret(w) IN
           IF IsSome(w1.app.selected_secret_decoded)
           THEN [w1 EXCEPT !.app.secret_scroll = 0,
                           !.app.secret_revealed = FALSE,
                           !.app.mode = "SecretDecode"]
           ELSE w1
      [] key.code = "Esc" ->
           update_filter([w EXCEPT !.app.filter_query = <<>>, !.app.status_filter = {}])
      [] OTHER -> w

handle_filter_input(w, key) ==
    CASE key.code = "Esc" -> [w EXCEPT !.app.mode = "List"]
      [] key.code = "Enter" -> [w EXCEPT !.app.mode = "List"]
      [] key.code = "Backspace" -> update_filter([w EXCEPT !.app.filter_query = pop(@)])
      [] key.code = "Char" ->
           update_filter([w EXCEPT !.app.filter_query = Append(@, key.ch)])
      [] OTHER -> w

(* The clipboard itself is not modelled. clipboard_clear_task is whether a  *)
(* handle is held, rt.clips the number of tasks that sleep before they      *)
(* clear the clipboard: c aborts the task of the handle it holds, which is  *)
(* dropped at its await, and spawns a new one.                              *)
handle_secret_modal_input(w, key) ==
    LET a == w.app
        decoded == a.selected_secret_decoded
    IN
    CASE key.code = "Esc" \/ IsChar(key, Ord.q) ->
           [w EXCEPT !.app.mode = "List", !.app.selected_secret_decoded = None]
      [] IsChar(key, Ord.j) \/ key.code = "Down" ->
           IF IsSome(decoded) /\ a.secret_scroll < SatSub(Len(Val(decoded)), 1)
           THEN [w EXCEPT !.app.secret_scroll = @ + 1]
           ELSE w
      [] IsChar(key, Ord.k) \/ key.code = "Up" ->
           [w EXCEPT !.app.secret_scroll = SatSub(@, 1)]
      [] IsChar(key, Ord.r) -> [w EXCEPT !.app.secret_revealed = ~@]
      [] IsChar(key, Ord.c) ->
           LET entry == IF IsSome(decoded) THEN get(Val(decoded), a.secret_scroll)
                        ELSE None
           IN IF IsSome(entry)
              THEN IF w.env.clip_ok
                   THEN [set_success(w, MsgName("Copied to clipboard", Val(entry).key))
                            EXCEPT !.app.clipboard_clear_task = TRUE,
                                   !.rt.clips = 1]
                   ELSE set_error(w, Msg("Clipboard error", 0))
              ELSE w
      [] OTHER -> w

describe_max_scroll(a) == SatSub(Len(a.describe_content), DescribeVisible)

handle_describe_input(w, key) ==
    LET page_size == DescribeVisible
        max == describe_max_scroll(w.app)
    IN
    CASE key.code = "Esc" \/ IsChar(key, Ord.q) ->
           [w EXCEPT !.app.describe_content = <<>>, !.app.mode = "List"]
      [] IsChar(key, Ord.j) \/ key.code = "Down" ->
           IF w.app.describe_scroll < max
           THEN [w EXCEPT !.app.describe_scroll = @ + 1] ELSE w
      [] IsChar(key, Ord.k) \/ key.code = "Up" ->
           [w EXCEPT !.app.describe_scroll = SatSub(@, 1)]
      [] key.code = "PageDown" ->
           [w EXCEPT !.app.describe_scroll = Min(@ + page_size, max)]
      [] key.code = "PageUp" ->
           [w EXCEPT !.app.describe_scroll = SatSub(@, page_size)]
      [] IsChar(key, Ord.G) -> [w EXCEPT !.app.describe_scroll = max]
      [] IsChar(key, Ord.g) -> [w EXCEPT !.app.describe_scroll = 0]
      [] OTHER -> w

handle_status_filter_input(w, key) ==
    LET a == w.app
        len == Len(a.status_filter_items)
    IN
    CASE key.code = "Esc" -> [w EXCEPT !.app.mode = "List"]
      [] key.code = "Enter" ->
           LET selected == IF a.status_filter_selected = {}
                           THEN Range(a.status_filter_state)
                           ELSE a.status_filter_selected
               w1 == [w EXCEPT !.app.status_filter =
                         IF Cardinality(selected) = len THEN {}
                         ELSE {a.status_filter_items[i + 1].phase :
                                  i \in {j \in selected : j < len}}]
           IN [update_filter(w1) EXCEPT !.app.mode = "List"]
      [] IsChar(key, Ord.space) ->
           IF IsSome(a.status_filter_state)
           THEN [w EXCEPT !.app.status_filter_selected =
                    IF Val(a.status_filter_state) \in @
                    THEN @ \ {Val(a.status_filter_state)}
                    ELSE @ \cup {Val(a.status_filter_state)}]
           ELSE w
      [] IsChar(key, Ord.a) ->
           [w EXCEPT !.app.status_filter_selected =
                IF Cardinality(@) = len THEN {} ELSE 0..(len - 1)]
      [] key.code = "Up" \/ IsChar(key, Ord.k) ->
           [w EXCEPT !.app.status_filter_state = popup_up(@)]
      [] key.code = "Down" \/ IsChar(key, Ord.j) ->
           IF len > 0 THEN [w EXCEPT !.app.status_filter_state = popup_down(@, len)]
           ELSE w
      [] OTHER -> w

(* Any key but Ctrl-q is written to the pseudo-terminal, which is not       *)
(* modelled.                                                                *)
handle_shell_input(w, key) ==
    IF IsChar(key, Ord.q) /\ key.ctrl
    THEN [w EXCEPT !.app.shell_session = FALSE, !.app.mode = "List"]
    ELSE w

(* The value of a string of decimal digits *)
RECURSIVE decimal(_)
decimal(s) == IF s = <<>> THEN 0 ELSE decimal(pop(s)) * 10 + (s[Len(s)] - Ord.zero)

RECURSIVE strip_zeros(_)
strip_zeros(s) == IF s # <<>> /\ Head(s) = Ord.zero THEN strip_zeros(Tail(s)) ELSE s

(* The digits of u32::MAX, 4294967295 *)
U32MaxDigits == <<52, 50, 57, 52, 57, 54, 55, 50, 57, 53>>

(* str::parse::<u32> of a string of digits: an error when empty or above    *)
(* u32::MAX. A value of ten digits is only ever compared with 1000 and is   *)
(* kept as 2^31 - 1.                                                        *)
parse_u32(s) ==
    LET t == strip_zeros(s) IN
    IF s # <<>> /\ (\A i \in 1..Len(s) : is_ascii_digit(s[i]))
       /\ (Len(t) < 10 \/ (Len(t) = 10 /\ ~StrLess(U32MaxDigits, t)))
    THEN Some(IF Len(t) < 10 THEN decimal(t) ELSE 2147483647)
    ELSE None

(* A call to the cluster, spawned as a task: k8s/actions.rs delete_pod,     *)
(* delete_deployment, rollout_restart, scale_deployment.                    *)
Call(op, ns, name, replicas) == [op |-> op, ns |-> ns, name |-> name, replicas |-> replicas]

spawn_call(w, call) == [Note(w, "call") EXCEPT !.rt.calls = Append(@, call)]

(* A faulty handle_scale_input: Enter scales at once, without the prompt *)
handle_scale_input_unconfirmed(w, key) ==
    LET a == w.app
        replicas == parse_u32(a.scale_input)
        sel == get_selected_resource(a)
    IN
    CASE key.code = "Esc" -> [w EXCEPT !.app.mode = "List"]
      [] key.code = "Enter" ->
           IF IsSome(replicas) /\ IsSome(sel)
           THEN [spawn_call(w, Call("scale_deployment", a.current_namespace,
                                    Val(sel).name, Val(replicas)))
                    EXCEPT !.app.mode = "List"]
           ELSE [w EXCEPT !.app.mode = "List"]
      [] key.code = "Backspace" -> [w EXCEPT !.app.scale_input = pop(@)]
      [] key.code = "Char" /\ is_ascii_digit(key.ch) ->
           [w EXCEPT !.app.scale_input = Append(@, key.ch)]
      [] OTHER -> w

(* Enter without the upper limit of the replica count *)
handle_scale_input_no_limit(w, key) ==
    LET a == w.app
        replicas == parse_u32(a.scale_input)
        sel == get_selected_resource(a)
        w0 == Note(w, "scale:enter")
    IN
    CASE key.code = "Esc" -> [w EXCEPT !.app.mode = "List"]
      [] key.code = "Enter" ->
           IF a.scale_input = <<>>
           THEN set_error(w0, Msg("Enter a replica count", 0))
           ELSE IF IsSome(replicas)
           THEN IF FALSE
                THEN [set_error(w0, Msg("Replica count must be <= 1000", 0))
                         EXCEPT !.app.mode = "List"]
                ELSE IF IsSome(sel)
                THEN [w0 EXCEPT !.app.pending_action =
                                   Some(ScaleDeployment(Val(sel).name, Val(replicas))),
                                !.app.mode = "Confirm"]
                ELSE [w0 EXCEPT !.app.mode = "List"]
           ELSE [set_error(w0, Msg("Invalid number", 0)) EXCEPT !.app.mode = "List"]
      [] key.code = "Backspace" -> [w EXCEPT !.app.scale_input = pop(@)]
      [] key.code = "Char" /\ is_ascii_digit(key.ch) ->
           [w EXCEPT !.app.scale_input = Append(@, key.ch)]
      [] OTHER -> w

handle_scale_input(w, key) ==
    LET a == w.app
        replicas == parse_u32(a.scale_input)
        sel == get_selected_resource(a)
        w0 == Note(w, "scale:enter")
    IN
    CASE key.code = "Esc" -> [w EXCEPT !.app.mode = "List"]
      [] key.code = "Enter" ->
           IF a.scale_input = <<>>
           THEN set_error(w0, Msg("Enter a replica count", 0))
           ELSE IF IsSome(replicas)
           THEN IF Val(replicas) > MAX_REPLICAS
                THEN [set_error(w0, Msg("Replica count must be <= 1000", 0))
                         EXCEPT !.app.mode = "List"]
                ELSE IF IsSome(sel)
                THEN [w0 EXCEPT !.app.pending_action =
                                   Some(ScaleDeployment(Val(sel).name, Val(replicas))),
                                !.app.mode = "Confirm"]
                ELSE [w0 EXCEPT !.app.mode = "List"]
           ELSE [set_error(w0, Msg("Invalid number", 0)) EXCEPT !.app.mode = "List"]
      [] key.code = "Backspace" -> [w EXCEPT !.app.scale_input = pop(@)]
      [] key.code = "Char" /\ is_ascii_digit(key.ch) ->
           [w EXCEPT !.app.scale_input = Append(@, key.ch)]
      [] OTHER -> w

(* for idx in indices: the delete of the row at idx, if there is one *)
RECURSIVE spawn_deletes(_, _)
spawn_deletes(w, indices) ==
    IF indices = <<>> THEN w
    ELSE LET item == get(w.app.filtered_items, Head(indices))
             ns == w.app.current_namespace
             w1 == IF IsSome(item) /\ Val(item).kind = "Pod"
                   THEN spawn_call(w, Call("delete_pod", ns, Val(item).name, 0))
                   ELSE IF IsSome(item) /\ Val(item).kind = "Deployment"
                   THEN spawn_call(w, Call("delete_deployment", ns, Val(item).name, 0))
                   ELSE w
         IN spawn_deletes(w1, Tail(indices))

handle_confirm_input(w, key) ==
    LET a == w.app
        ns == a.current_namespace
    IN
    CASE IsChar(key, Ord.y) \/ IsChar(key, Ord.Y) ->
           IF IsSome(a.pending_action)
           THEN LET action == Val(a.pending_action)
                    w0 == [Note(w, "confirm:accept") EXCEPT !.app.pending_action = None]
                    w1 == CASE action.type = "DeleteResource" ->
                                 spawn_deletes(w0,
                                     IF a.selected_indices = {}
                                     THEN a.table_state
                                     ELSE sort_unstable(a.selected_indices))
                            [] action.type = "RestartDeployment" ->
                                 spawn_call(w0, Call("rollout_restart", ns, action.name, 0))
                            [] action.type = "ScaleDeployment" ->
                                 spawn_call(w0, Call("scale_deployment", ns, action.name,
                                                     action.replicas))
                IN [w1 EXCEPT !.app.selected_indices = {}, !.app.mode = "List"]
           ELSE [w EXCEPT !.app.mode = "List"]
      [] IsChar(key, Ord.n) \/ IsChar(key, Ord.N) \/ key.code = "Esc" ->
           [Note(w, "confirm:decline") EXCEPT !.app.selected_indices = {},
                     !.app.pending_action = None,
                     !.app.mode = "List"]
      [] OTHER -> w

handle_input(w, key) ==
    CASE w.app.mode = "FilterInput" -> handle_filter_input(w, key)
      [] w.app.mode = "SecretDecode" -> handle_secret_modal_input(w, key)
      [] w.app.mode = "ContextSelect" -> handle_popup_input(w, key)
      [] w.app.mode = "NamespaceSelect" -> handle_namespace_input(w, key)
      [] w.app.mode = "LogView" -> handle_log_input(w, key)
      [] w.app.mode = "LogSearchInput" -> handle_log_search_input(w, key)
      [] w.app.mode = "ScaleInput" -> handle_scale_input(w, key)
      [] w.app.mode = "Confirm" -> handle_confirm_input(w, key)
      [] w.app.mode = "ShellView" -> handle_shell_input(w, key)
      [] w.app.mode = "DescribeView" -> handle_describe_input(w, key)
      [] w.app.mode = "StatusFilter" -> handle_status_filter_input(w, key)
      [] w.app.mode = "List" -> handle_global_input(w, key)

-----------------------------------------------------------------------------
(* event_loop.rs: results of the background tasks *)

Event(type) ==
    [type |-> type, line |-> <<>>, gen |-> 0, lines |-> <<>>, msg |-> Msg("", 0)]
LogEvent(line, from) == [Event("Log") EXCEPT !.line = line, !.gen = from]
LogHistoryEvent(generation, lines) ==
    [Event("LogHistory") EXCEPT !.gen = generation, !.lines = lines]
ErrorEvent(msg) == [Event("Error") EXCEPT !.msg = msg]
SuccessEvent(msg) == [Event("Success") EXCEPT !.msg = msg]
WatcherForbiddenEvent(msg) == [Event("WatcherForbidden") EXCEPT !.msg = msg]
DescribeReadyEvent(lines) == [Event("DescribeReady") EXCEPT !.lines = lines]
NamespacesLoadedEvent(namespaces) == [Event("NamespacesLoaded") EXCEPT !.lines = namespaces]

(* The gen field of a Log event is the generation of the task that sent it; *)
(* the code's Log(String) does not carry it and no handler reads it. The    *)
(* bytes of ShellOutput go to the terminal parser, which is not modelled.   *)
handle_channel_event(w, event) ==
    CASE event.type \in {"Refresh", "InitialListDone", "WatcherForbidden"} -> w
      [] event.type = "Log" -> push_log_line(w, event.line)
      [] event.type = "LogHistory" -> merge_log_history(w, event.gen, event.lines)
      [] event.type = "Error" -> set_error(w, event.msg)
      [] event.type = "Success" -> set_success(w, event.msg)
      [] event.type = "ShellOutput" -> w
      [] event.type = "ShellExited" ->
           LET w1 == [w EXCEPT !.app.shell_session = FALSE] IN
           IF w1.app.mode = "ShellView"
           THEN set_success([w1 EXCEPT !.app.mode = "List"], Msg("Shell session ended", 0))
           ELSE w1
      [] event.type = "DescribeReady" ->
           [w EXCEPT !.app.describe_content = event.lines,
                     !.app.describe_scroll = 0,
                     !.app.mode = "DescribeView"]
      [] event.type = "NamespacesLoaded" ->
           LET merged_state == merge_namespaces(w.app.app_state, w.app.current_context,
                                                event.lines)
           IN [w EXCEPT !.app.app_state = merged_state,
                        !.app.available_namespaces =
                            merged_state[w.app.current_context]]

(* handle_watcher_event, followed by the refresh it asks the loop for. A    *)
(* watcher that was refused is replaced by a stream that never yields.      *)
resource_kind(tab) ==
    CASE tab = "Pod" -> "pods"
      [] tab = "Deployment" -> "deployments"
      [] tab = "Secret" -> "secrets"

handle_watcher_event_unparked(w, event) ==
    CASE event.type = "WatcherForbidden" ->
           LET w1 == set_error(Note(w, "watch:forbidden"),
                               MsgKind("Access denied", resource_kind(w.app.active_tab),
                                       event.msg.name))
           IN [w1 EXCEPT !.app.is_loading = FALSE]
      [] event.type = "Error" -> set_error(w, event.msg)
      [] event.type = "InitialListDone" ->
           [refresh_items(w) EXCEPT !.app.is_loading = FALSE]
      [] OTHER -> IF ~w.app.is_loading THEN refresh_items(w) ELSE w

(* A handler that leaves the items alone when a resource changes *)
handle_watcher_event_norefresh(w, event) ==
    CASE event.type = "WatcherForbidden" ->
           LET w1 == set_error(Note(w, "watch:forbidden"),
                               MsgKind("Access denied", resource_kind(w.app.active_tab),
                                       event.msg.name))
           IN [w1 EXCEPT !.app.is_loading = FALSE, !.rt.watcher = "pending"]
      [] event.type = "Error" -> set_error(w, event.msg)
      [] event.type = "InitialListDone" ->
           [refresh_items(w) EXCEPT !.app.is_loading = FALSE]
      [] OTHER -> w

handle_watcher_event(w, event) ==
    CASE event.type = "WatcherForbidden" ->
           LET w1 == set_error(Note(w, "watch:forbidden"),
                               MsgKind("Access denied", resource_kind(w.app.active_tab),
                                       event.msg.name))
           IN [w1 EXCEPT !.app.is_loading = FALSE, !.rt.watcher = "pending"]
      [] event.type = "Error" -> set_error(w, event.msg)
      [] event.type = "InitialListDone" ->
           [refresh_items(w) EXCEPT !.app.is_loading = FALSE]
      [] OTHER -> IF ~w.app.is_loading THEN refresh_items(w) ELSE w

-----------------------------------------------------------------------------
(* The cluster and the configuration the program runs against *)

(* "default" *)
Default == <<100, 101, 102, 97, 117, 108, 116>>

(* The contexts of the kubeconfig, "c1" and "c2", the first one current *)
KubeContexts == << <<99, 49>>, <<99, 50>> >>
KubeCurrent == <<99, 49>>

(* k8s/config.rs get_namespace_for_context: "c2" names the namespace "e",   *)
(* "c1" names none.                                                         *)
get_namespace_for_context(context) == IF context = <<99, 50>> THEN <<101>> ELSE Default

(* The resources a namespace can hold: pods "a" (Running) and "b" (no       *)
(* phase), a deployment "a", and a secret "a" with one text entry and one   *)
(* binary entry.                                                            *)
PodA == Resource("Pod", <<97>>, Some("Running"), None)
PodB == Resource("Pod", <<98>>, None, None)
DeployA == Resource("Deployment", <<97>>, None, None)
(* What kubectl describe prints, and the namespaces of the cluster *)
DescribeLines == << <<78>>, <<83>> >>
ClusterNamespaces == <<Default, <<101>>>>

SecretA == Resource("Secret", <<97>>, None,
                    Some(<<[key |-> <<107>>, bytes |-> <<118>>, utf8 |-> TRUE],
                           [key |-> <<108>>, bytes |-> <<255>>, utf8 |-> FALSE]>>))
Universe == {PodA, PodB, DeployA, SecretA}

-----------------------------------------------------------------------------
(* The state after construction (App::new) *)

AppNew ==
    [current_namespace |-> Default,
     mode |-> "List",
     active_tab |-> "Pod",
     should_quit |-> FALSE,
     pod_store |-> None,
     deployment_store |-> None,
     secret_store |-> None,
     current_context |-> Default,
     pending_context |-> None,
     client |-> 0,
     items |-> <<>>,
     filtered_items |-> <<>>,
     table_state |-> None,
     filter_query |-> <<>>,
     selected_indices |-> {},
     selected_secret_decoded |-> None,
     log_buffer |-> <<>>,
     log_task |-> None,
     log_scroll_offset |-> None,
     available_contexts |-> <<>>,
     available_namespaces |-> <<>>,
     filtered_namespaces |-> <<>>,
     namespace_input |-> <<>>,
     namespace_typing |-> FALSE,
     popup_state |-> None,
     last_error |-> None,
     last_success |-> None,
     message_time |-> None,
     is_loading |-> TRUE,
     secret_scroll |-> 0,
     secret_revealed |-> FALSE,
     scale_input |-> <<>>,
     pending_action |-> None,
     describe_content |-> <<>>,
     describe_scroll |-> 0,
     shell_session |-> FALSE,
     clipboard_clear_task |-> FALSE,
     log_pod_name |-> <<>>,
     log_namespace |-> <<>>,
     log_tail_lines |-> LOG_TAIL_INIT,
     log_loading_history |-> FALSE,
     log_generation |-> 0,
     log_history_exhausted |-> FALSE,
     log_history_task |-> None,
     status_filter |-> {},
     status_filter_items |-> <<>>,
     status_filter_selected |-> {},
     status_filter_state |-> None,
     log_search_query |-> <<>>,
     log_search_input |-> <<>>,
     log_search_match_line |-> None,
     log_search_pending |-> FALSE,
     app_state |-> <<>>]

(* No task spawned, no watcher yet *)
RtNew ==
    [live |-> {}, hist |-> {}, calls |-> <<>>, describes |-> <<>>, nsloads |-> <<>>,
     shells |-> 0, clips |-> 0, watcher |-> "none", wclient |-> 0,
     wfor |-> <<"Pod", Default, KubeCurrent>>, fetches |-> 0]

(* What the environment answers during a step: whether a pseudo-terminal    *)
(* can be opened, the clipboard written, a client built for a context.      *)
EnvOk == [pty_ok |-> TRUE, clip_ok |-> TRUE, ctx_ok |-> TRUE]

WorldOf(a, r, env) == [app |-> a, rt |-> r, ops |-> {}, env |-> env]
World == WorldOf(app, rt, EnvOk)

-----------------------------------------------------------------------------
(* event_loop.rs run *)

(* available_namespaces for a context: the remembered ones and the current *)
namespaces_with_current(w, context) ==
    LET known == get_namespaces(w.app.app_state, context) IN
    IF w.app.current_namespace \in Range(known) THEN known
    ELSE sort(Append(known, w.app.current_namespace))

(* The context the client in use was built for: main builds the first one   *)
(* for the current context of the kubeconfig, the loop stores every later   *)
(* one together with current_context.                                       *)
client_context(w) ==
    IF w.app.client = 0 THEN KubeCurrent ELSE w.app.current_context

(* create_watcher: an empty store for the active tab and a stream on it,     *)
(* opened with a clone of the client the application holds at that moment   *)
(* (client counts the clients built; wclient is the one the stream uses)    *)
(* for the namespace and the kind of the active tab of that moment (wfor).  *)
create_watcher(w) ==
    CASE w.app.active_tab = "Pod" ->
           [w EXCEPT !.app.pod_store = Some({}), !.rt.watcher = "init",
                     !.rt.wclient = w.app.client,
                     !.rt.wfor = <<w.app.active_tab, w.app.current_namespace,
                                   client_context(w)>>]
      [] w.app.active_tab = "Deployment" ->
           [w EXCEPT !.app.deployment_store = Some({}), !.rt.watcher = "init",
                     !.rt.wclient = w.app.client,
                     !.rt.wfor = <<w.app.active_tab, w.app.current_namespace,
                                   client_context(w)>>]
      [] w.app.active_tab = "Secret" ->
           [w EXCEPT !.app.secret_store = Some({}), !.rt.watcher = "init",
                     !.rt.wclient = w.app.client,
                     !.rt.wfor = <<w.app.active_tab, w.app.current_namespace,
                                   client_context(w)>>]

(* run, up to the loop: the kubeconfig is read, the watcher of the pod tab  *)
(* created, the namespaces asked for.                                       *)
run_start(w) ==
    LET w1 == create_watcher(w)
        w2 == [w1 EXCEPT !.app.available_contexts = KubeContexts,
                         !.app.current_context = KubeCurrent]
        w3 == [w2 EXCEPT !.app.available_namespaces =
                             namespaces_with_current(w2, w2.app.current_context)]
    IN load_namespaces(refresh_items(w3))

(* The head of the loop, which follows every event handled: quitting, a     *)
(* pending context switch, and a new watcher when the tab, the namespace or *)
(* the context is no longer the one the watcher was created for.            *)
switch_context(w) ==
    IF ~IsSome(w.app.pending_context) THEN w
    ELSE LET new_ctx == Val(w.app.pending_context)
             w0 == [w EXCEPT !.app.pending_context = None]
         IN IF w.env.ctx_ok
            THEN LET w1 == [Note(w0, "context:ok") EXCEPT
                              !.app.client = @ + 1,
                              !.app.current_namespace = get_namespace_for_context(new_ctx),
                              !.app.current_context = new_ctx]
                     w2 == [w1 EXCEPT !.app.available_namespaces =
                                          namespaces_with_current(w1, new_ctx)]
                 IN load_namespaces(w2)
            ELSE set_error(Note(w0, "context:failed"), Msg("Context switch failed", 0))

rebuild_watcher(w) ==
    LET w1 == [w EXCEPT !.app.items = <<>>,
                        !.app.filtered_items = <<>>,
                        !.app.pod_store = None,
                        !.app.deployment_store = None,
                        !.app.secret_store = None,
                        !.app.is_loading = TRUE,
                        !.app.last_error =
                            IF IsSome(@) /\ is_access_denied(Val(@)) THEN None ELSE @,
                        !.app.message_time =
                            IF IsSome(w.app.last_error) /\ is_access_denied(Val(w.app.last_error))
                            THEN None ELSE @]
    IN refresh_items(create_watcher(w1))

(* A loop that does not compare the namespace *)
loop_head_ns_blind(w, current_tab, current_ns, current_ctx) ==
    IF w.app.should_quit THEN abort_log_stream(w)
    ELSE LET w1 == switch_context(w) IN
         IF \/ w1.app.active_tab # current_tab
            \/ w1.app.current_context # current_ctx
         THEN rebuild_watcher(w1)
         ELSE w1

loop_head(w, current_tab, current_ns, current_ctx) ==
    IF w.app.should_quit THEN abort_log_stream(w)
    ELSE LET w1 == switch_context(w) IN
         IF \/ w1.app.active_tab # current_tab
            \/ w1.app.current_namespace # current_ns
            \/ w1.app.current_context # current_ctx
         THEN rebuild_watcher(w1)
         ELSE w1

-----------------------------------------------------------------------------
(* Actions *)

(* The last n elements of s *)
LastN(s, n) == IF Len(s) <= n THEN s ELSE SubSeq(s, Len(s) - n + 1, Len(s))

(* The loop runs until should_quit is seen; the process then exits *)
Running == ~app.should_quit

(* ui/mod.rs draw, which the loop calls before its head when a handler has  *)
(* run. It reads the state, but for the table of the list: the views hand   *)
(* table_state to the Table widget when the list is not empty (and the view *)
(* is not a log view), and the widget, where the terminal leaves it an area *)
(* to draw in, moves a highlighted row that lies behind the last row onto   *)
(* the last row. area is whether it has one.                                *)
row_behind(a) ==
    /\ a.mode \notin {"LogView", "LogSearchInput"}
    /\ a.filtered_items # <<>>
    /\ IsSome(a.table_state)
    /\ Val(a.table_state) >= Len(a.filtered_items)

draw(w, area) ==
    IF area /\ row_behind(w.app)
    THEN [w EXCEPT !.app.table_state = Some(Len(w.app.filtered_items) - 1)]
    ELSE w

Areas(w) == IF row_behind(w.app) THEN BOOLEAN ELSE {TRUE}

(* The head of the loop after a handler has run on the current state *)
LoopHead(w) == loop_head(w, app.active_tab, app.current_namespace, app.current_context)

(* The drawing and the head of the loop that follow a handler *)
Redrawn(w) == {LoopHead(draw(w, area)) : area \in Areas(w)}

(* The tasks spawned and not finished stay within the bounds *)
TasksBounded(r) ==
    /\ Len(r.calls) + Len(r.describes) + Len(r.nsloads) + r.shells <= MaxTasks
    /\ Len(r.calls) <= MaxCalls
    /\ Len(r.describes) <= MaxDescribes
    /\ Len(r.nsloads) <= MaxNsLoads
    /\ r.shells <= MaxShells

(* event_loop.rs run: a key event is read and dispatched *)
KeyEventEnv(key, env) ==
    /\ Running
    /\ \E w2 \in Redrawn(handle_input(WorldOf(app, rt, env), key)) :
         /\ TasksBounded(w2.rt)
         /\ app' = w2.app
         /\ rt' = w2.rt
         /\ lastOps' = w2.ops
         /\ IF "start" \in w2.ops
            THEN pushedAll' = <<>> /\ merged' = FALSE
            ELSE UNCHANGED <<pushedAll, merged>>
    /\ UNCHANGED <<chan, srcLog>>

KeyEvent(key) == KeyEventEnv(key, EnvOk)

(* event_loop.rs run: an event is received from the internal channel *)
ChannelEvent ==
    /\ Running
    /\ chan # <<>>
    /\ \E w2 \in Redrawn(handle_channel_event(World, Head(chan))) :
         /\ app' = w2.app
         /\ rt' = w2.rt
         /\ lastOps' = w2.ops
    /\ chan' = Tail(chan)
    /\ merged' = (merged \/ Head(chan).type = "LogHistory")
    /\ pushedAll' = IF merged' THEN <<>>
                    ELSE IF Head(chan).type = "Log" THEN Append(pushedAll, Head(chan).line)
                    ELSE pushedAll
    /\ UNCHANGED srcLog

(* The store of the active tab's watcher *)
set_store(w, S) ==
    CASE w.app.active_tab = "Pod" -> [w EXCEPT !.app.pod_store = Some(S)]
      [] w.app.active_tab = "Deployment" -> [w EXCEPT !.app.deployment_store = Some(S)]
      [] w.app.active_tab = "Secret" -> [w EXCEPT !.app.secret_store = Some(S)]

(* event_loop.rs run: an event of the watcher stream is handled. The        *)
(* reflector has written the store before the event is seen.                *)
WatcherEvent(w, event) ==
    /\ Running
    /\ \E w2 \in Redrawn(handle_watcher_event(w, event)) :
         /\ app' = w2.app
         /\ rt' = w2.rt
         /\ lastOps' = w2.ops
    /\ UNCHANGED <<chan, srcLog, pushedAll, merged>>

Listable(S) == SUBSET {r \in S : r.kind = app.active_tab}

(* The initial list is complete *)
WatchInitDone(S) ==
    /\ rt.watcher = "init"
    /\ \E items \in Listable(S) :
          WatcherEvent([set_store(World, items) EXCEPT !.rt.watcher = "live"],
                       Event("InitialListDone"))

(* A resource is applied or deleted *)
WatchChange(S) ==
    /\ rt.watcher = "live"
    /\ \E items \in Listable(S) :
          /\ Some(items) # store_of(app)
          /\ WatcherEvent(set_store(World, items), Event("Refresh"))

(* The cluster refuses the list or the watch *)
WatchForbidden ==
    /\ rt.watcher \in {"init", "live"}
    /\ \E text \in {<<>>, <<102>>} :
          WatcherEvent(World, WatcherForbiddenEvent(MsgName("", text)))

(* event_loop.rs run: the ticker fires. A tick that reads fewer seconds    *)
(* than an earlier one changes nothing the earlier one left, so the choice  *)
(* of elapsed need not grow along a behaviour.                              *)
Elapsed == {0, SUCCESS_SECS, ERROR_SECS}

Tick ==
    /\ Running
    /\ \E elapsed \in Elapsed :
          \E w2 \in Redrawn(Note(clear_stale_messages(World, elapsed), "tick")) :
            /\ app' = w2.app
            /\ rt' = w2.rt
            /\ lastOps' = w2.ops
    /\ UNCHANGED <<chan, srcLog, pushedAll, merged>>

(* The watch fails for another reason; the stream goes on *)
WatchError ==
    /\ rt.watcher \in {"init", "live"}
    /\ WatcherEvent(World, ErrorEvent(Msg("Watcher error", 0)))

(* The i-th element of s removed *)
RemoveAt(s, i) == SubSeq(s, 1, i - 1) \o SubSeq(s, i + 1, Len(s))

(* A background task ends and sends its result *)
Send(event) ==
    /\ Running
    /\ Len(chan) < MaxChan
    /\ chan' = Append(chan, event)
    /\ lastOps' = {}
    /\ UNCHANGED <<app, srcLog, pushedAll, merged>>

(* input.rs handle_confirm_input: the spawned call returns *)
CallResult(call, ok) ==
    CASE call.op = "delete_pod" ->
           IF ok THEN SuccessEvent(MsgName("Pod deleted", call.name))
           ELSE ErrorEvent(MsgName("Delete failed", call.name))
      [] call.op = "delete_deployment" ->
           IF ok THEN SuccessEvent(MsgName("Deployment deleted", call.name))
           ELSE ErrorEvent(MsgName("Delete failed", call.name))
      [] call.op = "rollout_restart" ->
           IF ok THEN SuccessEvent(MsgName("Rollout restart", call.name))
           ELSE ErrorEvent(MsgName("Restart failed", call.name))
      [] call.op = "scale_deployment" ->
           IF ok THEN SuccessEvent([MsgName("scaled to replicas", call.name)
                                       EXCEPT !.n = call.replicas])
           ELSE ErrorEvent(MsgName("Scale failed", call.name))

CallDone(outcomes) ==
    \E i \in 1..Len(rt.calls), ok \in outcomes :
        /\ Send(CallResult(rt.calls[i], ok))
        /\ rt' = [rt EXCEPT !.calls = RemoveAt(@, i)]

(* input.rs handle_global_input 'd': kubectl describe returns *)
DescribeDone(outcomes) ==
    /\ rt.describes # <<>>
    /\ \E ok \in outcomes :
          Send(IF ok THEN DescribeReadyEvent(DescribeLines)
               ELSE ErrorEvent(Msg("Describe failed", 0)))
    /\ rt' = [rt EXCEPT !.describes = Tail(@)]

(* app.rs load_namespaces: the namespaces listed, or only the current one *)
NamespacesLoaded(outcomes) ==
    /\ rt.nsloads # <<>>
    /\ \E ok \in outcomes :
          Send(NamespacesLoadedEvent(IF ok THEN ClusterNamespaces
                                     ELSE <<Head(rt.nsloads).current_ns>>))
    /\ rt' = [rt EXCEPT !.nsloads = Tail(@)]

(* app.rs spawn_pty_session: the reader task reads bytes *)
ShellOutput ==
    /\ rt.shells > 0
    /\ Send(Event("ShellOutput"))
    /\ UNCHANGED rt

(* spawn_pty_session: the reader task reads end of file or an error *)
ShellExited ==
    /\ rt.shells > 0
    /\ Send(Event("ShellExited"))
    /\ rt' = [rt EXCEPT !.shells = @ - 1]

(* The task spawned by c has slept its 15 s and clears the clipboard *)
ClipCleared ==
    /\ rt.clips > 0
    /\ rt' = [rt EXCEPT !.clips = @ - 1]
    /\ lastOps' = {}
    /\ UNCHANGED <<app, chan, srcLog, pushedAll, merged>>

(* The pod writes a line *)
SrcAppend(max) ==
    /\ Len(srcLog) < max
    /\ \E line \in LineSet : srcLog' = Append(srcLog, line)
    /\ lastOps' = {}
    /\ UNCHANGED <<app, rt, chan, pushedAll, merged>>

(* k8s/actions.rs stream_pod_logs: the follow request is answered; the      *)
(* stream starts tail_lines before the end of the log.                      *)
LiveConnect ==
    \E t \in rt.live :
        /\ Running
        /\ t.st = "connect"
        /\ rt' = [rt EXCEPT !.live = (@ \ {t}) \cup
                     {[t EXCEPT !.st = "stream", !.pos = SatSub(Len(srcLog), t.tail)]}]
        /\ lastOps' = {}
        /\ UNCHANGED <<app, chan, srcLog, pushedAll, merged>>

(* stream_pod_logs: the follow request fails *)
LiveConnectFail ==
    \E t \in rt.live :
        /\ Running
        /\ t.st = "connect"
        /\ Len(chan) < MaxChan
        /\ rt' = [rt EXCEPT !.live = @ \ {t}]
        /\ chan' = Append(chan, ErrorEvent(Msg("Log error", 0)))
        /\ lastOps' = {}
        /\ UNCHANGED <<app, srcLog, pushedAll, merged>>

(* stream_pod_logs: the next line of the stream is sent *)
LiveSend ==
    \E t \in rt.live :
        /\ Running
        /\ t.st = "stream"
        /\ t.pos < Len(srcLog)
        /\ Len(chan) < MaxChan
        /\ chan' = Append(chan, LogEvent(srcLog[t.pos + 1], t.gen))
        /\ rt' = [rt EXCEPT !.live = (@ \ {t}) \cup {[t EXCEPT !.pos = @ + 1]}]
        /\ lastOps' = {}
        /\ UNCHANGED <<app, srcLog, pushedAll, merged>>

(* stream_pod_logs: the stream ends *)
LiveEnd ==
    \E t \in rt.live :
        /\ Running
        /\ t.st = "stream"
        /\ rt' = [rt EXCEPT !.live = @ \ {t}]
        /\ lastOps' = {}
        /\ UNCHANGED <<app, chan, srcLog, pushedAll, merged>>

(* k8s/actions.rs fetch_log_history: the last tail_lines lines are read and sent *)
FetchDone ==
    \E t \in rt.hist :
        /\ Running
        /\ Len(chan) < MaxChan
        /\ chan' = Append(chan, LogHistoryEvent(t.gen, LastN(srcLog, t.tail)))
        /\ rt' = [rt EXCEPT !.hist = @ \ {t}]
        /\ lastOps' = {}
        /\ UNCHANGED <<app, srcLog, pushedAll, merged>>

(* fetch_log_history: the request fails *)
FetchFail ==
    \E t \in rt.hist :
        /\ Running
        /\ ~t.ab
        /\ Len(chan) < MaxChan
        /\ chan' = Append(chan, ErrorEvent(Msg("Log history error", 0)))
        /\ rt' = [rt EXCEPT !.hist = @ \ {t}]
        /\ lastOps' = {}
        /\ UNCHANGED <<app, srcLog, pushedAll, merged>>

(* An aborted history task is cancelled *)
TaskCancelled ==
    /\ \E t \in {u \in rt.hist : u.ab} : rt' = [rt EXCEPT !.hist = @ \ {t}]
    /\ lastOps' = {}
    /\ UNCHANGED <<app, chan, srcLog, pushedAll, merged>>

-----------------------------------------------------------------------------
(* The log subsystem: one pod is listed and highlighted; the user opens,    *)
(* reads, searches and closes its log.                                      *)

LogScrollKeys ==
    {Char(Ord.q), Key("Esc"), Char(Ord.j), Char(Ord.k), Key("PageDown"), Key("PageUp"),
     Char(Ord.G), Char(Ord.g)}

LogViewKeys == LogScrollKeys \cup {Char(Ord.slash), Char(Ord.n), Char(Ord.N)}

LogSearchKeys ==
    {Key("Enter"), Key("Esc"), Key("Backspace")} \cup {Char(c) : c \in SearchChars}

(* The state at the first turn of the loop *)
RunStart == run_start(WorldOf(AppNew, RtNew, EnvOk))

(* Pod "a" is listed and the user has moved to its row *)
PodListed ==
    handle_input(
        handle_watcher_event(
            [RunStart EXCEPT !.app.pod_store = Some({PodA}), !.rt.watcher = "live"],
            Event("InitialListDone")),
        Char(Ord.j))

InitLog ==
    /\ app = PodListed.app
    /\ rt = PodListed.rt
    /\ chan = <<>>
    /\ srcLog = <<>>
    /\ pushedAll = <<>>
    /\ merged = FALSE
    /\ lastOps = {}

LogOpen(max) ==
    /\ app.mode = "List"
    /\ app.log_generation < max
    /\ KeyEvent(Char(Ord.l))

LogScrollKey ==
    /\ app.mode = "LogView"
    /\ \E key \in LogScrollKeys : KeyEvent(key)

LogViewKey ==
    /\ app.mode = "LogView"
    /\ \E key \in LogViewKeys : KeyEvent(key)

LogSearchKey ==
    /\ app.mode = "LogSearchInput"
    /\ \E key \in LogSearchKeys :
          /\ key.code = "Char" => Len(app.log_search_input) < MaxInput
          /\ KeyEvent(key)

(* The buffer: the user opens the log, scrolls, asks for history, closes. *)
NextLog ==
    \/ LogOpen(MaxGenSearch)
    \/ LogScrollKey
    \/ ChannelEvent
    \/ SrcAppend(MaxSrc)
    \/ LiveConnect
    \/ LiveSend
    \/ LiveEnd
    \/ FetchDone
    \/ TaskCancelled

SpecLog == InitLog /\ [][NextLog]_vars

(* The viewer with its search, over a short log, and with failing requests. *)
NextSearch ==
    \/ LogOpen(MaxGenSearch)
    \/ LogViewKey
    \/ LogSearchKey
    \/ ChannelEvent
    \/ SrcAppend(MaxSrcSearch)
    \/ LiveConnect
    \/ LiveConnectFail
    \/ LiveSend
    \/ LiveEnd
    \/ FetchDone
    \/ FetchFail
    \/ TaskCancelled

SpecSearch == InitLog /\ [][NextSearch]_vars

(* The viewer closed and opened again, over a short log. *)
NextRestart ==
    \/ LogOpen(MaxGen)
    \/ LogScrollKey
    \/ ChannelEvent
    \/ SrcAppend(MaxSrcRestart)
    \/ LiveConnect
    \/ LiveSend
    \/ LiveEnd
    \/ FetchDone
    \/ TaskCancelled

SpecRestart == InitLog /\ [][NextRestart]_vars

-----------------------------------------------------------------------------
(* The resource list and its destructive actions: the tabs, the watcher,    *)
(* the selection, the Confirm and ScaleInput prompts, the calls and their   *)
(* results, and one visit to each other view, opened from a quiet list.     *)

(* The characters typed into the filter, namespace and log search prompts   *)
TypedChars == {Ord.y}

(* Every key a handler names, and keys that none names *)
SpecKeys ==
    {Char(c) : c \in {Ord.q, Ord.n, Ord.N, Ord.j, Ord.k, Ord.G, Ord.g, Ord.slash, Ord.l,
                      Ord.y, Ord.Y, Ord.a, Ord.c, Ord.f, Ord.s, Ord.D, Ord.S, Ord.r,
                      Ord.d, Ord.e, Ord.x, Ord.space, Ord.zero + 1}}
    \cup {Ctrl(Ord.a), Ctrl(Ord.c), Ctrl(Ord.q), Ctrl(Ord.y)}
    \cup {Key(code) : code \in {"Tab", "BackTab", "Enter", "Esc", "Backspace", "Delete",
                                "Up", "Down", "PageUp", "PageDown"}}

(* The keys of the list that open another view *)
ViewKeys ==
    {Char(c) : c \in {Ord.l, Ord.s, Ord.e, Ord.d, Ord.x, Ord.n, Ord.c, Ord.f, Ord.slash}}

(* The keys pressed in each mode. The prompts of the destructive actions    *)
(* get every key that they name; a view opened from the list is not closed  *)
(* again by a key.                                                          *)
StepKeys(mode) ==
    CASE mode = "List" ->
           {Char(Ord.q), Key("Tab"), Key("BackTab"), Char(Ord.j), Char(Ord.space),
            Ctrl(Ord.a), Char(Ord.D), Char(Ord.S), Char(Ord.r), Key("Esc")} \cup ViewKeys
      [] mode = "Confirm" ->
           {Char(Ord.y), Char(Ord.Y), Char(Ord.n), Key("Esc"), Key("Enter")}
      [] mode = "ScaleInput" ->
           {Char(Ord.zero + 1), Key("Enter"), Key("Esc"), Key("Backspace"), Char(Ord.y)}
      [] mode = "FilterInput" -> {Char(Ord.y), Key("Backspace")}
      [] mode = "StatusFilter" -> {Char(Ord.space), Key("Down")}
      [] mode = "SecretDecode" -> {Char(Ord.r), Char(Ord.c)}
      [] mode = "ContextSelect" -> {Key("Down"), Char(Ord.y)}
      [] mode = "NamespaceSelect" -> {Key("Down"), Char(Ord.y)}
      [] mode = "LogView" -> {Char(Ord.slash), Char(Ord.y)}
      [] mode = "LogSearchInput" -> {Char(Ord.y), Key("Backspace")}
      [] mode = "ShellView" -> {Char(Ord.y), Key("Enter")}
      [] mode = "DescribeView" -> {Char(Ord.j), Char(Ord.y)}

(* The text typed stays within the bounds *)
TextBounded(key) ==
    key.code = "Char" =>
        CASE app.mode = "FilterInput" ->
               key.ch \in TypedChars /\ Len(app.filter_query) < MaxInput
          [] app.mode = "NamespaceSelect" /\ app.namespace_typing ->
               key.ch \in TypedChars /\ Len(app.namespace_input) < MaxInput
          [] app.mode = "LogSearchInput" ->
               key.ch \in TypedChars /\ Len(app.log_search_input) < MaxInput
          [] app.mode = "ScaleInput" ->
               is_ascii_digit(key.ch) => Len(app.scale_input) < MaxInput
          [] OTHER -> TRUE

(* The answers of the environment that the handling of a key can depend on *)
EnvChoices(key) ==
    CASE app.mode = "List" /\ (IsChar(key, Ord.s) \/ IsChar(key, Ord.e)) ->
           {EnvOk, [EnvOk EXCEPT !.pty_ok = FALSE]}
      [] app.mode = "SecretDecode" /\ IsChar(key, Ord.c) ->
           {EnvOk, [EnvOk EXCEPT !.clip_ok = FALSE]}
      [] app.mode = "ContextSelect" /\ key.code = "Enter" ->
           {EnvOk, [EnvOk EXCEPT !.ctx_ok = FALSE]}
      [] OTHER -> {EnvOk}

(* Nothing is shown, selected or running besides the list *)
Quiet ==
    /\ app.last_error = None
    /\ app.last_success = None
    /\ app.selected_indices = {}
    /\ rt.calls = <<>>
    /\ rt.describes = <<>>
    /\ rt.nsloads = <<>>
    /\ chan = <<>>

UserKey ==
    \E key \in StepKeys(app.mode) :
        /\ TextBounded(key)
        /\ (app.mode = "List" /\ key \in ViewKeys) => Quiet
        /\ KeyEvent(key)

(* The resources of the namespace the list is opened on *)
Listed == {PodA, DeployA, SecretA}

Init ==
    /\ app = RunStart.app
    /\ rt = RunStart.rt
    /\ chan = <<>>
    /\ srcLog = <<>>
    /\ pushedAll = <<>>
    /\ merged = FALSE
    /\ lastOps = {}

Next ==
    \/ UserKey
    \/ ChannelEvent
    \/ WatchInitDone(Listed)
    \/ WatchChange(Listed)
    \/ CallDone({TRUE})
    \/ DescribeDone({TRUE})
    \/ NamespacesLoaded({TRUE})
    \/ ShellExited

Spec == Init /\ [][Next]_vars

-----------------------------------------------------------------------------
(* Properties of the log buffer *)

(* The operations of the last step *)
Requested == lastOps \cap {"request:skip", "request:cap", "request:fetch"} # {}
RequestedNext == lastOps' \cap {"request:skip", "request:cap", "request:fetch"} # {}

(* A history fetch of the current session is running or its response is queued *)
Outstanding ==
    \/ \E t \in rt.hist : ~t.ab /\ t.gen = app.log_generation
    \/ \E i \in 1..Len(chan) :
          chan[i].type = "LogHistory" /\ chan[i].gen = app.log_generation

(* C1: in every reachable state, whatever the interleaving of stream_logs,  *)
(* push_log_line and merge_log_history, the log buffer holds at most        *)
(* MAX_LOG_LINES lines.                                                     *)
C1_BufferBounded == Len(app.log_buffer) <= MAX_LOG_LINES

(* A line was pushed onto a full buffer, which is full again *)
C1_Witness == "push:evict" \in lastOps /\ Len(app.log_buffer) = MAX_LOG_LINES

(* C2: after k pushes since the stream_logs that emptied the buffer, with   *)
(* no history merge in between, the buffer is the last min(k, N) pushed     *)
(* lines in push order.                                                     *)
C2_LastPushed == ~merged => app.log_buffer = LastN(pushedAll, MAX_LOG_LINES)

(* More than N lines were pushed, the last onto a full buffer *)
C2_Witness ==
    /\ ~merged
    /\ "push:evict" \in lastOps
    /\ Len(pushedAll) > MAX_LOG_LINES
    /\ \E i \in 1..Len(app.log_buffer) : app.log_buffer[i] # app.log_buffer[1]

(* C3: every stream_logs raises the generation by exactly one and no other  *)
(* step (push, history request, merge, search, closing the view) changes it.*)
C3_GenerationStep ==
    [][IF "start" \in lastOps'
       THEN app'.log_generation = app.log_generation + 1
       ELSE app'.log_generation = app.log_generation]_vars

(* The log was opened a second time *)
C3_Witness == "start" \in lastOps /\ app.log_generation = 2

(* C4: merge_log_history with a generation other than the current one only  *)
(* clears the loading flag: buffer, scroll offset, match line, tail window  *)
(* and exhausted flag (and every other field) stay as they were.            *)
C4_StaleMergeFrame ==
    [][(chan # <<>> /\ chan' = Tail(chan) /\ Head(chan).type = "LogHistory"
            /\ Head(chan).gen # app.log_generation)
           => app' = [app EXCEPT !.log_loading_history = FALSE]]_vars

(* A stale response was discarded while a fetch of the current session was  *)
(* running, in a paused view with lines.                                    *)
C4_Witness ==
    /\ "merge:stale" \in lastOps
    /\ ~app.log_loading_history
    /\ \E t \in rt.hist : ~t.ab /\ t.gen = app.log_generation
    /\ app.log_buffer # <<>>
    /\ IsSome(app.log_scroll_offset)

(* C5: load_more_history never issues a fetch while an earlier fetch of the *)
(* same session is running or its response is still queued.                 *)
C5_OneOutstandingFetch == [][("request:fetch" \in lastOps') => ~Outstanding]_vars

(* C6: a line sent by the follow task of an earlier generation is not       *)
(* appended to the buffer.                                                  *)
C6_NoStaleLine ==
    [][(chan # <<>> /\ chan' = Tail(chan) /\ Head(chan).type = "Log"
            /\ Head(chan).gen # app.log_generation)
           => app'.log_buffer = app.log_buffer]_vars

(* The response at the head of the channel is merged by this step *)
MergeStep ==
    /\ chan # <<>>
    /\ chan' = Tail(chan)
    /\ Head(chan).type = "LogHistory"
    /\ Head(chan).gen = app.log_generation

(* The 0-based position of the last occurrence of x in s *)
LastPos(x, s) == SetMax({i \in 1..Len(s) : s[i] = x}) - 1

(* The buffer's first line occurs in the response, and the lines before its *)
(* last occurrence fit in the remaining capacity.                           *)
C7_Pre ==
    /\ MergeStep
    /\ app.log_buffer # <<>>
    /\ \E i \in 1..Len(Head(chan).lines) : Head(chan).lines[i] = app.log_buffer[1]
    /\ MAX_LOG_LINES - Len(app.log_buffer) >= LastPos(app.log_buffer[1], Head(chan).lines)

C7_Post ==
    LET L == Head(chan).lines
        p == LastPos(app.log_buffer[1], L)
    IN /\ app'.log_buffer = SubSeq(L, 1, p) \o app.log_buffer
       /\ app'.log_scroll_offset =
             IF IsSome(app.log_scroll_offset)
             THEN Some(Val(app.log_scroll_offset) + p) ELSE None
       /\ app'.log_search_match_line =
             IF IsSome(app.log_search_match_line)
             THEN Some(Val(app.log_search_match_line) + p) ELSE None

(* A search is waiting for history and one of the lines the merge prepends  *)
(* contains the query.                                                      *)
C7_PendingSearchFinds ==
    LET L == Head(chan).lines
        p == LastPos(app.log_buffer[1], L)
    IN /\ app.log_search_pending
       /\ app.log_search_query # <<>>
       /\ \E i \in 1..p : contains_ascii_ci(L[i], app.log_search_query)

(* C7 as stated: a merge of the current generation whose response holds the *)
(* buffer's first line last at position p, with capacity for p lines, makes *)
(* the buffer L[0..p) ++ B, moves a paused offset n to n+p, keeps follow    *)
(* mode, and moves a recorded match line m to m+p.                          *)
C7_MergePrepends == [][C7_Pre => C7_Post]_vars

(* C7, amended: the same, except when a search is waiting for history and   *)
(* finds its query in one of the prepended lines (the match line and the    *)
(* scroll offset then go to that line).                                     *)
C7_MergePrependsNoPendingHit == [][(C7_Pre /\ ~C7_PendingSearchFinds) => C7_Post]_vars

(* Lines were prepended under a paused view with a recorded match line *)
C7_Witness ==
    /\ "merge:prepend" \in lastOps
    /\ IsSome(app.log_scroll_offset)
    /\ IsSome(app.log_search_match_line)
    /\ "resolve:found" \notin lastOps
    /\ Val(app.log_search_match_line) > 0

(* C8: load_more_history called with the tail window at N, no fetch in      *)
(* flight and history not exhausted issues no fetch, leaves the tail window *)
(* and the loading flag as they were, and sets the exhausted flag.          *)
C8_CapNoFetch ==
    [][(RequestedNext /\ app.log_tail_lines >= MAX_LOG_LINES
            /\ ~app.log_loading_history /\ ~app.log_history_exhausted)
           => /\ rt'.hist = rt.hist
              /\ app'.log_history_task = app.log_history_task
              /\ app'.log_tail_lines = app.log_tail_lines
              /\ app'.log_loading_history = app.log_loading_history
              /\ app'.log_history_exhausted]_vars

(* The request was made at capacity *)
C8_Witness ==
    /\ "request:cap" \in lastOps
    /\ app.log_tail_lines = MAX_LOG_LINES
    /\ app.log_history_exhausted
    /\ ~app.log_loading_history

(* C9: the tail window is a multiple of the step between the initial window *)
(* and N; it is the initial window after stream_logs, grows by one step     *)
(* when a fetch is issued, and changes at no other time.                    *)
C9_TailWindow ==
    /\ [](/\ app.log_tail_lines % LOG_TAIL_STEP = 0
          /\ LOG_TAIL_INIT <= app.log_tail_lines
          /\ app.log_tail_lines <= MAX_LOG_LINES)
    /\ [][app'.log_tail_lines =
             IF "start" \in lastOps' THEN LOG_TAIL_INIT
             ELSE IF "request:fetch" \in lastOps' THEN app.log_tail_lines + LOG_TAIL_STEP
             ELSE app.log_tail_lines]_vars

(* The window has grown to N by fetches of the second session *)
C9_Witness ==
    /\ "request:fetch" \in lastOps
    /\ app.log_tail_lines = MAX_LOG_LINES
    /\ app.log_generation = 2

-----------------------------------------------------------------------------
(* The specification of the resource list: tabs, the highlighted row, the   *)
(* multi-selection, the two filters, the banners and the watch, with the    *)
(* ticker and the failures of the watch. It presses the keys of the list    *)
(* and of the prompts opened from it (filter, status filter, Confirm), once *)
(* the namespaces listed at the start have arrived.                         *)

ListKeys(mode) ==
    CASE mode = "List" ->
           {Key("Tab"), Key("BackTab"), Char(Ord.j), Char(Ord.space), Ctrl(Ord.a),
            Char(Ord.slash), Char(Ord.f), Key("Esc"), Char(Ord.D)}
      [] mode = "FilterInput" ->
           {Char(Ord.a), Key("Backspace"), Key("Enter")}
      [] mode = "StatusFilter" -> {Char(Ord.space), Key("Enter"), Key("Esc")}
      [] mode = "Confirm" -> {Char(Ord.n)}
      [] OTHER -> {}

ListKey ==
    \E key \in ListKeys(app.mode) :
        /\ rt.nsloads = <<>> /\ chan = <<>>
        /\ (app.mode = "FilterInput" /\ key.code = "Char")
              => Len(app.filter_query) < MaxInput
        /\ KeyEvent(key)

(* Two pods, of different phases, one deployment and one secret *)
ListedAll == {PodA, PodB, DeployA, SecretA}

NextList ==
    \/ ListKey
    \/ ChannelEvent
    \/ WatchInitDone(ListedAll)
    \/ WatchChange(ListedAll)
    \/ WatchForbidden
    \/ WatchError
    \/ Tick
    \/ NamespacesLoaded({TRUE})

SpecList == Init /\ [][NextList]_vars

-----------------------------------------------------------------------------
(* The specification of update_filter as a function: the list, the query    *)
(* and the status filter are drawn from bounded sets, and the function is   *)
(* applied once.                                                            *)

PodAb == Resource("Pod", <<97, 98>>, Some("Pending"), None)
DeployAb == Resource("Deployment", <<97, 98>>, None, None)

(* The characters a, A, b and y *)
QueryChars == {Ord.a, Ord.A, 98, Ord.y}

SeqsUpTo(S, n) == UNION {[1..k -> S] : k \in 0..n}

FilterInputs ==
    {[tab |-> "Pod", items |-> sort_by_name(S), query |-> q, status |-> st] :
        S \in SUBSET {PodA, PodAb, PodB},
        q \in SeqsUpTo(QueryChars, MaxQuery),
        st \in SUBSET {"Running", "Pending", "Unknown"}}
    \cup
    {[tab |-> "Deployment", items |-> sort_by_name(S), query |-> q, status |-> {}] :
        S \in SUBSET {DeployA, DeployAb},
        q \in SeqsUpTo(QueryChars, MaxQuery)}

InitFilter ==
    /\ \E in \in FilterInputs :
          app = [AppNew EXCEPT !.active_tab = in.tab,
                               !.items = in.items,
                               !.filter_query = in.query,
                               !.status_filter = in.status,
                               !.is_loading = FALSE]
    /\ rt = RtNew
    /\ chan = <<>>
    /\ srcLog = <<>>
    /\ pushedAll = <<>>
    /\ merged = FALSE
    /\ lastOps = {}

ApplyFilter ==
    /\ lastOps = {}
    /\ app' = update_filter(World).app
    /\ lastOps' = {"update_filter"}
    /\ UNCHANGED <<rt, chan, srcLog, pushedAll, merged>>

NextFilter == ApplyFilter

SpecFilter == InitFilter /\ [][NextFilter]_vars

-----------------------------------------------------------------------------
(* The specification of the two prompts that validate what is typed: the    *)
(* replica count (ScaleInput) and the namespace (NamespaceSelect, typing).  *)
(* It starts in a prompt with a text typed: the state that the keys S or    *)
(* n and /, and then the characters of the text, lead to from the list.     *)
(* Typing a character appends it and, in the namespace prompt, filters the  *)
(* list by the text typed so far, so the state after the last character is  *)
(* the prompt with the text and the list filtered by it.                    *)

(* The deployment tab with the deployment "a" listed and highlighted *)
DeployListed ==
    LET w1 == loop_head(handle_input(RunStart, Key("Tab")), RunStart.app.active_tab,
                        RunStart.app.current_namespace, RunStart.app.current_context)
        w2 == handle_watcher_event(
                  [w1 EXCEPT !.app.deployment_store = Some({DeployA}),
                             !.rt.watcher = "live"],
                  Event("InitialListDone"))
    IN handle_input(w2, Char(Ord.j))

(* "", "0", "3", "1000", "1001", "0999", u32::MAX and u32::MAX + 1 *)
ScaleTexts ==
    {<<>>, <<48>>, <<51>>, <<49, 48, 48, 48>>, <<49, 48, 48, 49>>, <<48, 57, 57, 57>>,
     U32MaxDigits, <<52, 50, 57, 52, 57, 54, 55, 50, 57, 54>>}

(* Names of the letter y, of length 63 and 64, and short texts of y, M, the *)
(* digit 1, the hyphen and the underscore; "e" occurs in a listed namespace *)
Ys(n) == [i \in 1..n |-> Ord.y]

NsTexts ==
    {<<>>, <<Ord.y>>, <<Ord.hyphen, Ord.y>>, <<Ord.y, Ord.hyphen>>,
     <<Ord.y, Ord.hyphen, Ord.y>>, <<77>>, <<Ord.y, 95>>, <<49>>, <<Ord.hyphen>>,
     <<101>>, Ys(MAX_NAME_LEN - 1), Ys(MAX_NAME_LEN), Ys(MAX_NAME_LEN + 1)}

ScalePrompt(text) ==
    [handle_input(DeployListed, Char(Ord.S)) EXCEPT !.app.scale_input = text]

NsPrompt(text) ==
    LET w == handle_input(handle_input(PodListed, Char(Ord.n)), Char(Ord.slash)) IN
    IF text = <<>> THEN w
    ELSE update_namespace_filter([w EXCEPT !.app.namespace_input = text])

Prompts ==
    {ScalePrompt(text) : text \in ScaleTexts} \cup {NsPrompt(text) : text \in NsTexts}

InitPrompt ==
    /\ \E w \in Prompts : app = w.app /\ rt = w.rt
    /\ chan = <<>>
    /\ srcLog = <<>>
    /\ pushedAll = <<>>
    /\ merged = FALSE
    /\ lastOps = {}

PromptKeys(mode) ==
    CASE mode = "ScaleInput" ->
           {Key("Enter"), Key("Esc"), Key("Backspace"), Char(Ord.zero + 1), Char(Ord.y)}
      [] mode = "NamespaceSelect" ->
           {Key("Enter"), Key("Esc"), Key("Backspace"), Key("Down"),
            Char(Ord.y), Char(Ord.hyphen), Char(77)}
      [] mode = "Confirm" -> {Key("Esc")}
      [] OTHER -> {}

PromptKey ==
    \E key \in PromptKeys(app.mode) :
        /\ (app.mode = "ScaleInput" /\ key.code = "Char")
              => Len(app.scale_input) < MaxDigits
        /\ (app.mode = "NamespaceSelect" /\ key.code = "Char")
              => Len(app.namespace_input) < MaxTyped
        /\ KeyEvent(key)

NextPrompt == PromptKey

SpecPrompt == InitPrompt /\ [][NextPrompt]_vars

-----------------------------------------------------------------------------
(* The specification of the secret viewer: the tabs, the decode modal and   *)
(* the describe view, whose content a background task delivers.             *)

SecretKeys(mode) ==
    CASE mode = "List" ->
           {Key("Tab"), Key("BackTab"), Char(Ord.j), Char(Ord.d), Char(Ord.x),
            Char(Ord.q)}
      [] mode = "SecretDecode" -> {Key("Esc"), Char(Ord.j), Char(Ord.r), Char(Ord.c)}
      [] mode = "DescribeView" -> {Char(Ord.q)}
      [] OTHER -> {}

SecretKey == \E key \in SecretKeys(app.mode) : KeyEvent(key)

NextSecret ==
    \/ SecretKey
    \/ ChannelEvent
    \/ WatchInitDone(Listed)
    \/ WatchChange(Listed)
    \/ DescribeDone({TRUE})
    \/ NamespacesLoaded({TRUE})
    \/ ClipCleared

SpecSecret == Init /\ [][NextSecret]_vars

-----------------------------------------------------------------------------
(* Properties of the destructive actions *)

(* One event of every kind the internal channel carries *)
ChannelEvents ==
    {Event("Refresh"), Event("InitialListDone"), Event("ShellOutput"), Event("ShellExited"),
     WatcherForbiddenEvent(MsgName("", <<102>>)),
     ErrorEvent(MsgName("Delete failed", <<97>>)),
     SuccessEvent(MsgName("Pod deleted", <<97>>)),
     DescribeReadyEvent(DescribeLines),
     NamespacesLoadedEvent(ClusterNamespaces)}
    \cup {LogEvent(line, app.log_generation) : line \in LineSet}
    \cup {LogHistoryEvent(g, <<line>>) : g \in 0..MaxGen, line \in LineSet}

(* One event of every kind the watcher stream yields *)
WatcherEvents ==
    {Event("Refresh"), Event("InitialListDone"),
     WatcherForbiddenEvent(MsgName("", <<>>)),
     WatcherForbiddenEvent(MsgName("", <<102>>)),
     ErrorEvent(Msg("Watcher error", 0))}

(* The calls a turn of the loop adds to those in flight *)
Issued(w) == SubSeq(w.rt.calls, Len(rt.calls) + 1, Len(w.rt.calls))

AcceptKey(key) == IsChar(key, Ord.y) \/ IsChar(key, Ord.Y)

(* C10: in every reachable state, whatever key is handled next, with        *)
(* whatever answer of the environment, a delete, scale or restart call is   *)
(* issued only if the mode is Confirm, the key is y or Y and a              *)
(* PendingAction is held; and whatever event of the watcher or of the       *)
(* channel is handled next, none is issued.                                 *)
C10_ConfirmOnly ==
    /\ \A key \in SpecKeys : \A env \in EnvChoices(key) :
          Issued(LoopHead(handle_input(WorldOf(app, rt, env), key))) # <<>>
              => /\ app.mode = "Confirm"
                 /\ AcceptKey(key)
                 /\ IsSome(app.pending_action)
    /\ \A event \in ChannelEvents :
          Issued(LoopHead(handle_channel_event(World, event))) = <<>>
    /\ \A event \in WatcherEvents :
          Issued(LoopHead(handle_watcher_event(World, event))) = <<>>

(* y has been handled in Confirm with a PendingAction held, and its call is *)
(* in flight.                                                               *)
C10_Witness ==
    /\ "call" \in lastOps
    /\ app.mode = "List"
    /\ app.pending_action = None
    /\ \E i \in 1..Len(rt.calls) : rt.calls[i].op = "scale_deployment"

(* C11: while the mode is Confirm and a PendingAction is held, every step    *)
(* either keeps the mode and the action as they are, or is the handling of  *)
(* the accept key (the action is executed) or of a decline key (it is       *)
(* discarded).                                                              *)
C11_PendingHeld ==
    [][(app.mode = "Confirm" /\ IsSome(app.pending_action))
          => \/ app'.mode = "Confirm" /\ app'.pending_action = app.pending_action
             \/ "confirm:accept" \in lastOps'
             \/ "confirm:decline" \in lastOps']_vars

-----------------------------------------------------------------------------
(* Properties of the resource list (SpecList) *)

OtherStoresDropped(a) ==
    /\ a.active_tab # "Pod" => a.pod_store = None
    /\ a.active_tab # "Deployment" => a.deployment_store = None
    /\ a.active_tab # "Secret" => a.secret_store = None

WatcherStep ==
    \/ WatchInitDone(ListedAll)
    \/ WatchChange(ListedAll)
    \/ WatchForbidden
    \/ WatchError

Triple(a) == <<a.active_tab, a.current_namespace, a.current_context>>

(* C13: the step that handles a permission-denied watch error sets an error *)
(* banner "Access denied" that names the resource kind of the active tab,   *)
(* clears loading and parks the stream; while the stream is parked no       *)
(* watcher event can be handled, and it stays parked as long as the tab,    *)
(* the namespace and the context are the same.                              *)
C13_ForbiddenParks ==
    /\ [][("watch:forbidden" \in lastOps')
             => /\ IsSome(app'.last_error)
                /\ is_access_denied(Val(app'.last_error))
                /\ Val(app'.last_error).kind = resource_kind(app.active_tab)
                /\ ~app'.is_loading
                /\ rt'.watcher = "pending"]_vars
    /\ [](rt.watcher = "pending" => ~ENABLED WatcherStep)
    /\ [][(rt.watcher = "pending" /\ Triple(app') = Triple(app))
             => rt'.watcher = "pending"]_vars

(* The list of the deployments has been refused, and a later step (a tick)  *)
(* has been taken with the stream parked.                                   *)
C13_Witness ==
    /\ rt.watcher = "pending"
    /\ "tick" \in lastOps
    /\ app.active_tab = "Deployment"
    /\ IsSome(app.last_error)
    /\ Val(app.last_error).kind = "deployments"
    /\ ~app.is_loading

(* C14: an access-denied banner stays as it is in every step that leaves    *)
(* the tab, the namespace and the context as they are.                      *)
C14_StickyBanner ==
    [][(/\ IsSome(app.last_error)
        /\ is_access_denied(Val(app.last_error))
        /\ Triple(app') = Triple(app))
          => app'.last_error = app.last_error]_vars

(* C15: every index of the multi-selection is a position of the filtered    *)
(* list: it is less than the length of the list.                            *)
C15_SelectionValid ==
    \A i \in app.selected_indices : i < Len(app.filtered_items)

-----------------------------------------------------------------------------
(* Properties of update_filter (SpecFilter) *)

(* Two characters that are equal up to the case of an ASCII letter *)
SameLetter(c, d) ==
    \/ c = d
    \/ c \in 65..90 /\ d = c + 32
    \/ d \in 65..90 /\ c = d + 32

(* The query occurs in the name, whatever the case of the letters *)
NameHasQuery(name, query) ==
    \E k \in 0..(Len(name) - Len(query)) :
        \A j \in 1..Len(query) : SameLetter(name[k + j], query[j])

QueryActive(a) == a.filter_query # <<>>
StatusActive(a) == a.active_tab = "Pod" /\ a.status_filter # {}

Passes(a, item) ==
    /\ QueryActive(a) => NameHasQuery(item.name, a.filter_query)
    /\ StatusActive(a) => pod_phase(item) \in a.status_filter

(* s is t with the elements that do not satisfy Keep left out: the same     *)
(* elements in the same order.                                              *)
IsFiltered(s, t, Keep(_)) ==
    LET kept == {i \in 1..Len(t) : Keep(t[i])} IN
    /\ Len(s) = Cardinality(kept)
    /\ \A i \in kept : s[Cardinality({j \in kept : j <= i})] = t[i]

(* C16: when update_filter has run, the filtered list is the items that     *)
(* pass both active filters, in the order of the item list; it is the item  *)
(* list when no filter is active, and empty when the query occurs in no     *)
(* name.                                                                    *)
C16_FilterExact ==
    ("update_filter" \in lastOps)
        => /\ IsFiltered(app.filtered_items, app.items, LAMBDA item : Passes(app, item))
           /\ (~QueryActive(app) /\ ~StatusActive(app)) => app.filtered_items = app.items
           /\ (QueryActive(app) /\ \A i \in 1..Len(app.items) :
                    ~NameHasQuery(app.items[i].name, app.filter_query))
                 => app.filtered_items = <<>>

(* Three pods, a query in capitals and a status filter, each of which       *)
(* leaves out a pod that the other keeps.                                   *)
C16_Witness ==
    /\ "update_filter" \in lastOps
    /\ Len(app.items) = 3
    /\ app.filter_query = <<Ord.A>>
    /\ app.status_filter = {"Pending", "Unknown"}
    /\ Len(app.filtered_items) = 1
    /\ app.filtered_items[1].name = <<97, 98>>

-----------------------------------------------------------------------------
(* Properties of the prompts that validate their input (SpecPrompt) *)

(* A replica count that is not accepted: no digits, not a u32, or more than *)
(* the limit.                                                               *)
BadCount(text) ==
    \/ text = <<>>
    \/ parse_u32(text) = None
    \/ Val(parse_u32(text)) > MAX_REPLICAS

(* A valid resource-name token: 1 to 63 lowercase ASCII letters, digits and *)
(* hyphens, the first and the last of them a letter or a digit.             *)
LowerOrDigit(c) == c \in 97..122 \/ c \in 48..57

NameToken(text) ==
    /\ Len(text) \in 1..63
    /\ \A i \in 1..Len(text) : LowerOrDigit(text[i]) \/ text[i] = 45
    /\ LowerOrDigit(text[1])
    /\ LowerOrDigit(text[Len(text)])

(* Enter is handled in the typing sub-mode with no entry of the list        *)
(* selected, so the typed text is what is validated.                        *)
TypedNameEntered ==
    /\ "ns:enter" \in lastOps'
    /\ selected_namespace(app) = None

(* C17: Enter on an invalid input leaves the prompt open: with an invalid   *)
(* typed namespace the mode stays NamespaceSelect and the namespace is      *)
(* unchanged, with an empty, non-numeric or too large replica count the     *)
(* mode stays ScaleInput and no PendingAction results; an error is shown.   *)
C17_ValidationKeepsMode ==
    /\ [][(TypedNameEntered /\ ~NameToken(app.namespace_input))
             => /\ app'.mode = "NamespaceSelect"
                /\ IsSome(app'.last_error)
                /\ app'.current_namespace = app.current_namespace]_vars
    /\ [][("scale:enter" \in lastOps' /\ BadCount(app.scale_input))
             => /\ app'.mode = "ScaleInput"
                /\ IsSome(app'.last_error)
                /\ app'.pending_action = None]_vars

(* C18: in ScaleInput a character key appends its character when it is an   *)
(* ASCII digit and leaves the input alone when it is not; Enter on a value  *)
(* that parses to at most 1000, with a deployment highlighted, holds a      *)
(* ScaleDeployment of that deployment and that count and moves to Confirm;  *)
(* Enter on a value that is not a number or is above 1000 shows an error,   *)
(* holds no action and returns to List.                                     *)
C18_ScalePrompt ==
    /\ [](app.mode = "ScaleInput"
            => \A c \in 0..127 :
                  handle_input(World, Char(c)).app.scale_input =
                      IF c \in 48..57 THEN Append(app.scale_input, c)
                      ELSE app.scale_input)
    /\ [][("scale:enter" \in lastOps' /\ app.scale_input # <<>>)
             => IF BadCount(app.scale_input)
                THEN /\ IsSome(app'.last_error)
                     /\ app'.pending_action = None
                     /\ app'.mode = "List"
                ELSE IsSome(get_selected_resource(app))
                        => /\ app'.pending_action =
                                 Some(ScaleDeployment(Val(get_selected_resource(app)).name,
                                                      Val(parse_u32(app.scale_input))))
                           /\ app'.mode = "Confirm"]_vars

(* Enter has been handled on the count 1000: the action is held in Confirm  *)
C18_Witness ==
    /\ "scale:enter" \in lastOps
    /\ app.mode = "Confirm"
    /\ app.scale_input = <<49, 48, 48, 48>>
    /\ app.pending_action = Some(ScaleDeployment(<<97>>, 1000))

(* C19: Enter in the typing sub-mode with no entry of the list selected     *)
(* makes the typed text the current namespace and returns to List when the  *)
(* text is a valid resource-name token, and only then; otherwise an error   *)
(* is shown and the mode, the typing sub-mode and the current namespace     *)
(* stay as they are.                                                        *)
C19_TypedNamespace ==
    [][TypedNameEntered
          => IF NameToken(app.namespace_input)
             THEN /\ app'.current_namespace = app.namespace_input
                  /\ app'.mode = "List"
             ELSE /\ IsSome(app'.last_error)
                  /\ app'.mode = "NamespaceSelect"
                  /\ app'.namespace_typing
                  /\ app'.current_namespace = app.current_namespace]_vars

(* A typed name of 63 characters has been accepted *)
C19_Witness ==
    /\ "ns:enter" \in lastOps
    /\ app.mode = "List"
    /\ app.current_namespace = Ys(MAX_NAME_LEN)

-----------------------------------------------------------------------------
(* Properties of the secret viewer (SpecSecret) *)

(* C20: decoded secret values are held only while the mode is SecretDecode  *)
C20_DecodedOnlyInModal ==
    app.mode # "SecretDecode" => app.selected_secret_decoded = None

(* C21: when the loop has seen the quit flag and exits, no task whose       *)
(* handle the session holds is left running: no log follow, no history      *)
(* fetch that is not aborted, no task that clears the clipboard.            *)
C21_QuitCancelsAll ==
    app.should_quit
        => /\ rt.live = {}
           /\ \A t \in rt.hist : t.ab
           /\ rt.clips = 0

-----------------------------------------------------------------------------
(* Properties of the search in the log (SpecSearch) *)

(* The indices of the buffered lines, from lo to hi, that contain the query *)
(* whatever the case of the letters.                                        *)
Hits(a, lo, hi) ==
    {i \in lo..hi : i < Len(a.log_buffer)
                     /\ NameHasQuery(a.log_buffer[i + 1], a.log_search_query)}

(* The last line the view shows *)
LastVisible(a) ==
    IF IsSome(a.log_scroll_offset)
    THEN SatSub(Min(Val(a.log_scroll_offset) + log_visible_height, Len(a.log_buffer)), 1)
    ELSE SatSub(Len(a.log_buffer), 1)

Searchable(a) == a.mode = "LogView" /\ a.log_search_query # <<>> /\ a.log_buffer # <<>>

(* C22: in every state of the log view with a query and lines, searchNext   *)
(* records the greatest index of a line with the query strictly below the   *)
(* current match (at or below the last visible line when there is no match) *)
(* and searchPrev the least one strictly above the current match; when      *)
(* there is no such line the match is left as it is.                        *)
C22_SearchOrder ==
    Searchable(app)
        => LET m == app.log_search_match_line
               older == IF IsSome(m) THEN Hits(app, 0, Val(m) - 1)
                        ELSE Hits(app, 0, LastVisible(app))
               newer == Hits(app, Val(m) + 1, Len(app.log_buffer) - 1)
               next == log_search_next(World).app.log_search_match_line
               prev == log_search_prev(World).app.log_search_match_line
           IN /\ next = IF older # {} THEN Some(SetMax(older)) ELSE m
              /\ IsSome(m) => prev = IF newer # {} THEN Some(SetMin(newer)) ELSE m

(* The line at which searchNext starts its scan towards line 0, and the     *)
(* line at which searchPrev starts its scan towards the last line.          *)
NextStart(a) ==
    IF IsSome(a.log_search_match_line) /\ Val(a.log_search_match_line) >= 1
    THEN Val(a.log_search_match_line) - 1
    ELSE LastVisible(a)

PrevStart(a) ==
    IF IsSome(a.log_search_match_line) THEN Val(a.log_search_match_line) + 1
    ELSE IF IsSome(a.log_scroll_offset) THEN Val(a.log_scroll_offset)
    ELSE SatSub(Len(a.log_buffer), log_visible_height)

NoMoreMatches(w) ==
    /\ IsSome(w.app.last_error)
    /\ Val(w.app.last_error).text = "No more matches"
    /\ ~w.app.log_search_pending
    /\ w.rt.hist = rt.hist

(* The search is marked pending and load_more_history was called *)
AskedForHistory(w) ==
    /\ w.app.log_search_pending
    /\ w.ops \cap {"request:skip", "request:cap", "request:fetch"} # {}

NotFoundRule(w) ==
    IF app.log_history_exhausted THEN NoMoreMatches(w) ELSE AskedForHistory(w)

(* C23, as stated: when searchNext or searchPrev finds no line, it reports  *)
(* No more matches and leaves the search not pending if the history is      *)
(* exhausted, and otherwise marks the search pending and asks for history.  *)
C23_NotFound ==
    Searchable(app)
        => /\ Hits(app, 0, NextStart(app)) = {} => NotFoundRule(log_search_next(World))
           /\ Hits(app, PrevStart(app), Len(app.log_buffer) - 1) = {}
                 => NotFoundRule(log_search_prev(World))

(* C23, amended: searchNext follows that rule; searchPrev, which scans      *)
(* towards the newest line, reports No more matches whether the history is  *)
(* exhausted or not, and neither marks the search pending nor asks for      *)
(* history.                                                                 *)
C23_NotFoundNextOnly ==
    Searchable(app)
        => /\ Hits(app, 0, NextStart(app)) = {} => NotFoundRule(log_search_next(World))
           /\ Hits(app, PrevStart(app), Len(app.log_buffer) - 1) = {}
                 => NoMoreMatches(log_search_prev(World))

(* searchPrev has found nothing while the history is not exhausted: the     *)
(* error is shown, and the search is not pending.                           *)
C23_Witness ==
    /\ app.mode = "LogView"
    /\ app.log_search_query # <<>>
    /\ app.log_buffer # <<>>
    /\ ~app.log_history_exhausted
    /\ ~app.log_search_pending
    /\ IsSome(app.last_error)
    /\ Val(app.last_error).text = "No more matches"

-----------------------------------------------------------------------------
(* The specification of the context popup: a context is chosen, a client is *)
(* built for it or not, and the namespace can be changed in between.        *)

MaxClients == 2   \* clients built by context switches

ContextKeys(mode) ==
    CASE mode = "List" -> {Char(Ord.c), Char(Ord.n), Key("Tab")}
      [] mode = "ContextSelect" -> {Key("Down"), Key("Up"), Key("Enter"), Key("Esc")}
      [] mode = "NamespaceSelect" -> {Key("Down"), Key("Enter")}
      [] OTHER -> {}

ContextKey ==
    \E key \in ContextKeys(app.mode) :
        /\ (app.mode = "ContextSelect" /\ key.code = "Enter") => app.client < MaxClients
        /\ \E env \in EnvChoices(key) : KeyEventEnv(key, env)

NextContext ==
    \/ ContextKey
    \/ ChannelEvent
    \/ WatchInitDone(Listed)
    \/ NamespacesLoaded({TRUE})

SpecContext == Init /\ [][NextContext]_vars

(* The watch subscription: the stream, the client it was opened with and   *)
(* the store it fills                                                       *)
Subscription(a, r) ==
    [watcher |-> r.watcher, wclient |-> r.wclient, store |-> store_of(a)]

(* The step that fails to build the client *)
C24_SwitchFailed ==
    "context:failed" \in lastOps'
        => /\ IsSome(app'.last_error)
           /\ Val(app'.last_error).text = "Context switch failed"
           /\ app'.client = app.client
           /\ app'.current_context = app.current_context
           /\ app'.current_namespace = app.current_namespace
           /\ Subscription(app', rt') = Subscription(app, rt)

(* The step that builds the client *)
C24_SwitchDone ==
    "context:ok" \in lastOps'
        => /\ app'.client # app.client
           /\ app'.current_context =
                  Val(get(app.available_contexts, Val(app.popup_state)))
           /\ app'.current_namespace = get_namespace_for_context(app'.current_context)
           /\ rt'.watcher = "init"
           /\ rt'.wclient = app'.client
           /\ store_of(app') = Some({})

(* C24: a pending context switch is consumed exactly once (none is pending  *)
(* when the loop waits for events); when it fails, an error banner is       *)
(* posted and the client, the context, the namespace and the watch          *)
(* subscription are the ones before; when it succeeds, the client is a new  *)
(* one, the context and the namespace are those of the chosen context, and  *)
(* a fresh watch subscription that uses the new client exists before the    *)
(* loop waits for events again.                                             *)
C24_ContextSwitch ==
    /\ [](~IsSome(app.pending_context))
    /\ [][C24_SwitchFailed /\ C24_SwitchDone]_vars

-----------------------------------------------------------------------------
(* The specification of the viewers whose task can end by itself: the log   *)
(* of the listed pod and a shell in it. An event in the channel is         *)
(* received in the end (the loop selects on the channel at every turn) and  *)
(* a spawned task that can take a step takes it (the runtime polls it).     *)

TaskKeys(mode) ==
    CASE mode = "List" -> {Char(Ord.l), Char(Ord.s)}
      [] mode = "LogView" -> {Key("Esc"), Char(Ord.j)}
      [] mode = "ShellView" -> {Ctrl(Ord.q), Char(Ord.j)}
      [] OTHER -> {}

TaskKey ==
    \E key \in TaskKeys(app.mode) :
        /\ IsChar(key, Ord.l) => app.log_generation < MaxGen
        /\ KeyEvent(key)

NextTasks ==
    \/ TaskKey
    \/ ChannelEvent
    \/ SrcAppend(MaxSrcRestart)
    \/ LiveConnect
    \/ LiveSend
    \/ LiveEnd
    \/ ShellOutput
    \/ ShellExited
    \/ NamespacesLoaded({TRUE})

FairTasks ==
    /\ WF_vars(ChannelEvent)
    /\ WF_vars(LiveConnect)
    /\ WF_vars(LiveSend)
    /\ WF_vars(NamespacesLoaded({TRUE}))

SpecTasks == InitLog /\ [][NextTasks]_vars /\ FairTasks

(* The live stream of the log on the screen has ended by itself *)
StreamEnded ==
    /\ app.mode = "LogView"
    /\ IsSome(app.log_task)
    /\ ~\E t \in rt.live : t.gen = app.log_generation

(* The reader of the shell on the screen has reported its end *)
ShellEnded ==
    /\ app.mode = "ShellView"
    /\ \E i \in 1..Len(chan) : chan[i].type = "ShellExited"

(* The step that receives the end of the shell while the shell is shown *)
ShellEndSeen ==
    /\ app.mode = "ShellView"
    /\ chan # <<>>
    /\ Head(chan).type = "ShellExited"
    /\ chan' = Tail(chan)

(* C25: when the live log stream ends, or the shell process exits, while    *)
(* its viewer is the active mode, the session goes back to List and an      *)
(* informational banner is posted; the loop keeps running.                  *)
C25_TaskEndsToList ==
    /\ (StreamEnded ~> app.mode = "List")
    /\ (ShellEnded ~> app.mode = "List")
    /\ [][ShellEndSeen => /\ app'.mode = "List"
                          /\ IsSome(app'.last_success)
                          /\ Val(app'.last_success).text = "Shell session ended"
                          /\ ~app'.should_quit]_vars
    /\ [](StreamEnded => ~app.should_quit)

(* The part of C25 that is about the shell *)
C25_ShellEndsToList ==
    /\ (ShellEnded ~> app.mode = "List")
    /\ [][ShellEndSeen => /\ app'.mode = "List"
                          /\ IsSome(app'.last_success)
                          /\ Val(app'.last_success).text = "Shell session ended"
                          /\ ~app'.should_quit]_vars

-----------------------------------------------------------------------------
(* The specification of the buffer over a log whose lines are pairwise      *)
(* distinct: the n-th line the pod writes is the digit n. The log is opened *)
(* once.                                                                    *)

SrcWrite(max) ==
    /\ Len(srcLog) < max
    /\ srcLog' = Append(srcLog, <<Ord.zero + Len(srcLog) + 1>>)
    /\ lastOps' = {}
    /\ UNCHANGED <<app, rt, chan, pushedAll, merged>>

NextDistinct ==
    \/ LogOpen(MaxGenSearch)
    \/ LogScrollKey
    \/ ChannelEvent
    \/ SrcWrite(MaxSrc)
    \/ LiveConnect
    \/ LiveSend
    \/ LiveEnd
    \/ FetchDone
    \/ TaskCancelled

SpecDistinct == InitLog /\ [][NextDistinct]_vars

(* s occurs in t as a run of consecutive elements *)
IsRunOf(s, t) ==
    \E i \in 0..(Len(t) - Len(s)) : \A k \in 1..Len(s) : s[k] = t[i + k]

(* C26: over a source log of pairwise distinct lines, after any             *)
(* interleaving of live lines and history merges of one generation the      *)
(* buffer is a contiguous run of the source log in source order, also when  *)
(* the first line of the buffer does not occur in the history response.     *)
C26_BufferIsRun == IsRunOf(app.log_buffer, srcLog)

-----------------------------------------------------------------------------
(* The specification of the delete prompt over a list that changes: pods    *)
(* come and go while the prompt is open.                                    *)

DeleteKeys(mode) ==
    CASE mode = "List" -> {Char(Ord.j), Char(Ord.space), Char(Ord.D)}
      [] mode = "Confirm" -> {Char(Ord.y), Char(Ord.n)}
      [] OTHER -> {}

DeleteKey == \E key \in DeleteKeys(app.mode) : KeyEvent(key)

NextDelete ==
    \/ DeleteKey
    \/ ChannelEvent
    \/ WatchInitDone(ListedAll)
    \/ WatchChange(ListedAll)
    \/ CallDone({TRUE})
    \/ NamespacesLoaded({TRUE})

SpecDelete == Init /\ [][NextDelete]_vars

(* The names of the calls that the step has spawned *)
NamesCalled == {rt'.calls[i].name : i \in (Len(rt.calls) + 1)..Len(rt'.calls)}

(* C27: when a DeleteResource action is accepted, the names for which       *)
(* delete calls are issued are the names recorded in the pending action,    *)
(* whatever watch events were handled since the delete key.                 *)
C27_DeletesWhatWasShown ==
    [][(/\ app.mode = "Confirm"
        /\ IsSome(app.pending_action)
        /\ Val(app.pending_action).type = "DeleteResource"
        /\ "confirm:accept" \in lastOps')
       => NamesCalled = Range(Val(app.pending_action).names)]_vars

-----------------------------------------------------------------------------
(* Shell sessions one after the other. A shell is opened only when no       *)
(* reader task is alive (MaxShells), so while a session is open and a       *)
(* reader is alive, that reader is the one of the open session and has not  *)
(* reported its end: a ShellExited in the channel then comes from the       *)
(* reader of an earlier session.                                            *)
StaleShellExited ==
    /\ app.shell_session
    /\ app.mode = "ShellView"
    /\ rt.shells > 0
    /\ chan # <<>>
    /\ Head(chan).type = "ShellExited"

(* C28: messages of an earlier shell session never affect a later one: a    *)
(* late ShellExited of the first session, received after the user has       *)
(* closed it with Ctrl-q and opened a new one, neither drops the new        *)
(* session nor leaves ShellView.                                            *)
C28_StaleShellIgnored ==
    [][(StaleShellExited /\ chan' = Tail(chan))
       => (app'.shell_session /\ app'.mode = "ShellView")]_vars

-----------------------------------------------------------------------------
(* The specification of the backfill under fair scheduling: the log is      *)
(* opened, scrolled, closed and opened again; a history fetch returns its   *)
(* lines or fails. Every spawned task that can take a step takes it in the  *)
(* end, and the loop receives what the channel holds.                       *)

NextBackfill ==
    \/ LogOpen(MaxGen)
    \/ LogScrollKey
    \/ ChannelEvent
    \/ SrcAppend(MaxSrcRestart)
    \/ LiveConnect
    \/ LiveSend
    \/ LiveEnd
    \/ FetchDone
    \/ FetchFail
    \/ TaskCancelled

FairBackfill ==
    /\ WF_vars(ChannelEvent)
    /\ WF_vars(LiveConnect)
    /\ WF_vars(LiveSend)
    /\ WF_vars(FetchDone \/ FetchFail)
    /\ WF_vars(TaskCancelled)

SpecBackfill == InitLog /\ [][NextBackfill]_vars /\ FairBackfill

(* The log is on the screen *)
InLog == app.mode \in {"LogView", "LogSearchInput"}

(* C29: the loading flag of the backfill is cleared in the end after every  *)
(* fetch that was issued and whose task is not cancelled (the viewer stays  *)
(* open), whether the fetch returns lines, belongs to an earlier            *)
(* generation or fails: a finished fetch never blocks later requests for    *)
(* history for ever.                                                        *)
C29_LoadingCleared ==
    (InLog /\ app.log_loading_history) ~> (~app.log_loading_history \/ ~InLog)

-----------------------------------------------------------------------------
(* The specification of a search that runs out of buffer: the log is opened *)
(* once, over a log long enough for the tail to reach MAX_LOG_LINES; the    *)
(* user asks for history, types the query and searches backwards.           *)

PendingKeys(mode) ==
    CASE mode = "LogView" -> {Char(Ord.k), Char(Ord.slash), Char(Ord.n)}
      [] mode = "LogSearchInput" -> {Char(Ord.A), Key("Enter")}
      [] OTHER -> {}

PendingKey ==
    \E key \in PendingKeys(app.mode) :
        /\ (app.mode = "LogSearchInput" /\ key.code = "Char")
              => Len(app.log_search_input) < MaxInput
        /\ KeyEvent(key)

NextPending ==
    \/ LogOpen(MaxGenSearch)
    \/ PendingKey
    \/ ChannelEvent
    \/ SrcAppend(MaxSrc)
    \/ LiveConnect
    \/ LiveSend
    \/ LiveEnd
    \/ FetchDone

SpecPending == InitLog /\ [][NextPending]_vars

(* C30: whenever a search waits for history (log_search_pending), a history *)
(* backfill of the current generation is in flight and the loading flag is  *)
(* set, so that a merge resolves the search in the end: searchNext never    *)
(* leaves the search pending after a request for history that issued no     *)
(* fetch.                                                                   *)
C30_PendingHasFetch ==
    app.log_search_pending => (app.log_loading_history /\ Outstanding)

-----------------------------------------------------------------------------
(* Properties of the search that waits for history *)

(* The offset that centres line i in a view of h lines over len lines *)
Centred(i, h, len) == Min(Max(i - (h \div 2), 0), Max(len - h, 0))

(* The number of lines the step has prepended *)
Prepended == Len(app'.log_buffer) - Len(app.log_buffer)

(* A merge of the current generation prepends lines while a search waits *)
PendingMerge ==
    /\ MergeStep
    /\ app.log_search_pending
    /\ Prepended > 0

(* What a resolved search leaves: the match and the view on the newest of   *)
(* the new lines that holds the query, or a banner when none does.          *)
Resolved ==
    LET found == Hits(app', 0, Prepended - 1) IN
    /\ found # {} =>
         /\ app'.log_search_match_line = Some(SetMax(found))
         /\ app'.log_scroll_offset =
                Some(Centred(SetMax(found), log_visible_height, Len(app'.log_buffer)))
    /\ found = {} =>
         /\ app'.log_search_match_line =
                IF IsSome(app.log_search_match_line)
                THEN Some(Val(app.log_search_match_line) + Prepended) ELSE None
         /\ IF app'.log_history_exhausted
            THEN /\ IsSome(app'.last_error)
                 /\ Val(app'.last_error).text = "Not found"
            ELSE /\ IsSome(app'.last_success)
                 /\ Val(app'.last_success).text =
                        "Not found in loaded lines, press n to load more"
                 /\ Val(app'.last_success).n = Len(app'.log_buffer)

(* The merge itself ends the wait and asks for nothing more *)
WaitEnded ==
    /\ ~app'.log_search_pending
    /\ rt'.hist = rt.hist
    /\ ~app'.log_loading_history

(* The merge has moved what was there by the lines prepended, and no more *)
OnlyShifted ==
    /\ app'.log_search_match_line =
           IF IsSome(app.log_search_match_line)
           THEN Some(Val(app.log_search_match_line) + Prepended) ELSE None
    /\ app'.log_scroll_offset =
           IF IsSome(app.log_scroll_offset)
           THEN Some(Val(app.log_scroll_offset) + Prepended) ELSE None
    /\ app'.last_error = app.last_error
    /\ app'.last_success = app.last_success

(* C31: when merge_log_history prepends p > 0 lines while a search is       *)
(* pending, the pending flag becomes false and only the p new lines are     *)
(* searched, newest first: if one holds the query, the match line becomes   *)
(* the largest such index below p and the view is centred on it; otherwise  *)
(* the error "Not found" is shown when history is now exhausted, else the   *)
(* notice to press n to load more; no fetch is issued by the merge.         *)
C31_PendingResolved == [][PendingMerge => (WaitEnded /\ Resolved)]_vars

(* C31, amended: the same when the query is not empty; with an empty query  *)
(* (the user has entered an empty search since) the pending flag becomes    *)
(* false and nothing is searched or reported.                               *)
C31_PendingResolvedQuery ==
    [][PendingMerge =>
         /\ WaitEnded
         /\ IF app.log_search_query # <<>> THEN Resolved ELSE OnlyShifted]_vars

(* A waiting search was resolved by a line the merge prepended *)
C31_Witness ==
    /\ "merge:prepend" \in lastOps
    /\ "resolve:found" \in lastOps
    /\ ~app.log_search_pending
    /\ IsSome(app.log_search_match_line)

-----------------------------------------------------------------------------
(* Properties of the end of history *)

(* The response merged by the step is shorter than the tail asked for *)
ShortResponse == MergeStep /\ Len(Head(chan).lines) < app.log_tail_lines

(* The response is merged into a buffer that has no room left *)
NoCapacity == MergeStep /\ Len(app.log_buffer) >= MAX_LOG_LINES

(* History is requested with the tail window at N *)
TailAtN == RequestedNext /\ app.log_tail_lines >= MAX_LOG_LINES

(* C32: log_history_exhausted becomes true only when no more scrollback can *)
(* be shown: the response was shorter than the tail asked for, the buffer   *)
(* has no capacity left, or the tail window has reached N. A merge of the   *)
(* current generation that finds no new line, while the buffer has room     *)
(* and the response has the full length, does not mark history exhausted.   *)
C32_ExhaustedOnlyAtEnd ==
    [][(~app.log_history_exhausted /\ app'.log_history_exhausted)
          => (ShortResponse \/ NoCapacity \/ TailAtN)]_vars

(* The number of lines of the response that come before the last            *)
(* occurrence of the buffer's first line: all of them when there is none.   *)
NewLines(buffer, L) ==
    IF buffer # <<>> /\ \E i \in 1..Len(L) : L[i] = buffer[1]
    THEN LastPos(buffer[1], L)
    ELSE Len(L)

(* The room left in the buffer *)
Capacity == MAX_LOG_LINES - Len(app.log_buffer)

(* C33: when the remaining capacity c > 0 is smaller than the number of new *)
(* lines of a response of the current generation, merge_log_history         *)
(* prepends exactly the c new lines nearest the overlap, in their order,    *)
(* and the buffer length becomes N.                                         *)
C33_CappedPrepend ==
    [][(MergeStep /\ Capacity > 0
            /\ Capacity < NewLines(app.log_buffer, Head(chan).lines))
          => LET L == Head(chan).lines
                 n == NewLines(app.log_buffer, L)
             IN /\ app'.log_buffer = SubSeq(L, n - Capacity + 1, n) \o app.log_buffer
                /\ Len(app'.log_buffer) = MAX_LOG_LINES]_vars

(* A merge has filled the buffer with fewer lines than the response offered *)
C33_Witness ==
    /\ "merge:capped" \in lastOps
    /\ Len(app.log_buffer) = MAX_LOG_LINES

-----------------------------------------------------------------------------
(* Properties of the view over the buffer *)

(* The line at the head of the channel is pushed by this step *)
PushStep ==
    /\ chan # <<>>
    /\ chan' = Tail(chan)
    /\ Head(chan).type = "Log"

(* C34: when push_log_line evicts the oldest line while the view is paused  *)
(* at offset n, the offset becomes n - 1, and never less than 0; when       *)
(* nothing is evicted, or the view follows the log, the offset is as it     *)
(* was.                                                                     *)
C34_EvictionShiftsView ==
    [][PushStep =>
         app'.log_scroll_offset =
             IF Len(app.log_buffer) >= MAX_LOG_LINES /\ IsSome(app.log_scroll_offset)
             THEN Some(Max(Val(app.log_scroll_offset) - 1, 0))
             ELSE app.log_scroll_offset]_vars

(* A line was evicted under a paused view, which now shows the first line *)
C34_Witness ==
    /\ "push:evict" \in lastOps
    /\ app.log_scroll_offset = Some(0)
    /\ Len(app.log_buffer) = MAX_LOG_LINES

-----------------------------------------------------------------------------
(* Properties of the start of a log session *)

(* The state that stream_logs leaves when called in the current state *)
Started == stream_logs(World, <<Ord.a>>, app.current_namespace)

(* C35: stream_logs called in any state leaves the buffer empty, the search *)
(* query, the match line and the pending flag cleared, the view in follow   *)
(* mode, the tail window at its initial length, the loading and exhausted   *)
(* flags false, the earlier follow and backfill tasks cancelled, exactly    *)
(* one new follow task registered, and the mode LogView.                    *)
C35_StartResets ==
    LET a == Started.app
        r == Started.rt
    IN /\ a.log_buffer = <<>>
       /\ a.log_search_query = <<>>
       /\ a.log_search_match_line = None
       /\ ~a.log_search_pending
       /\ a.log_scroll_offset = None
       /\ a.log_tail_lines = LOG_TAIL_INIT
       /\ ~a.log_loading_history
       /\ ~a.log_history_exhausted
       /\ a.mode = "LogView"
       /\ \A t \in r.hist : t.ab
       /\ \A t \in r.live : t.gen = a.log_generation
       /\ Cardinality({t \in r.live : t.gen = a.log_generation}) = 1
       /\ a.log_task = Some(a.log_generation)
       /\ a.log_generation = app.log_generation + 1

-----------------------------------------------------------------------------
(* Properties of the recorded match *)

(* C36: whenever a search match line is recorded, it is an index into the   *)
(* buffer and the line there holds the query, whatever the case of its      *)
(* letters, after any sequence of pushed lines (evictions included) and     *)
(* history merges.                                                          *)
C36_MatchLineValid ==
    IsSome(app.log_search_match_line)
        => /\ Val(app.log_search_match_line) < Len(app.log_buffer)
           /\ NameHasQuery(app.log_buffer[Val(app.log_search_match_line) + 1],
                           app.log_search_query)

-----------------------------------------------------------------------------
(* The specification of the watcher: the tab, the namespace and the context *)
(* change, the cluster answers, refuses or fails.                           *)

NextWatch ==
    \/ ContextKey
    \/ ChannelEvent
    \/ WatchInitDone(Listed)
    \/ WatchChange(ListedAll)
    \/ WatchForbidden
    \/ WatchError
    \/ NamespacesLoaded({TRUE})

SpecWatch == Init /\ [][NextWatch]_vars

(* One watch stream is open, on the store of the active tab and no other *)
OneSubscription ==
    /\ rt.watcher \in {"init", "live"}
    /\ IsSome(store_of(app))
    /\ OtherStoresDropped(app)

(* The step changes the tab, the namespace or the context: the watcher is   *)
(* replaced in the same turn of the loop.                                   *)
Replaced ==
    Triple(app') # Triple(app)
        => /\ rt'.watcher = "init"
           /\ rt'.wfor = Triple(app')
           /\ rt'.wclient = app'.client
           /\ store_of(app') = Some({})
           /\ app'.items = <<>>
           /\ app'.filtered_items = <<>>
           /\ app'.is_loading

(* C37: whenever the loop waits for events, exactly one watch subscription  *)
(* is alive and it was created for the current tab, namespace and context;  *)
(* a change of any of the three tears the old subscription down and makes   *)
(* the new one in the same turn of the loop, with the items cleared and     *)
(* loading set.                                                             *)
C37_OneWatcher ==
    /\ [](Running => (OneSubscription /\ rt.wfor = Triple(app)))
    /\ [][Replaced]_vars

(* C37, amended: the same, except after the cluster has refused the list or *)
(* the watch: the subscription is then dropped and the loop waits on a      *)
(* stream that never yields, until the tab, the namespace or the context    *)
(* changes.                                                                 *)
C37_OneWatcherUnlessParked ==
    /\ [](Running => /\ rt.watcher # "pending" => OneSubscription
                     /\ rt.watcher \in {"init", "live", "pending"}
                     /\ rt.wfor = Triple(app))
    /\ [][Replaced]_vars

(* The namespace was changed and the watcher of the new namespace lists *)
C37_Witness ==
    /\ app.current_namespace # Default
    /\ app.current_context = KubeCurrent
    /\ rt.watcher = "init"
    /\ rt.wfor = Triple(app)
    /\ app.is_loading

-----------------------------------------------------------------------------
(* The items after an event of the watcher *)

(* The stream reports that the initial list is complete *)
InitDoneStep == rt.watcher = "init" /\ rt'.watcher = "live"

(* The stream reports a resource applied or deleted: the reflector has      *)
(* changed the store of the stream that stays open.                         *)
ChangeStep ==
    /\ rt.watcher = "live"
    /\ rt'.watcher = "live"
    /\ store_of(app') # store_of(app)

(* The items are the contents of the store of the active tab, in ascending  *)
(* order of their names.                                                    *)
ItemsAreStore(a) ==
    /\ IsSome(store_of(a))
    /\ Range(a.items) = Val(store_of(a))
    /\ Len(a.items) = Cardinality(Val(store_of(a)))
    /\ \A i \in 1..(Len(a.items) - 1) : StrLess(a.items[i].name, a.items[i + 1].name)

(* C38: a step that handles a watch event which is not an error (a resource *)
(* applied or deleted, or the initial list done) ends, before the next      *)
(* wait, with the items being the contents of the store sorted by name; the *)
(* end of the initial list also clears is_loading.                          *)
C38_ItemsFollowStore ==
    [][/\ (InitDoneStep \/ ChangeStep) => ItemsAreStore(app')
       /\ InitDoneStep => ~app'.is_loading]_vars

(* Two pods are listed after a change, the list is loaded *)
C38_Witness ==
    /\ rt.watcher = "live"
    /\ ~app.is_loading
    /\ app.active_tab = "Pod"
    /\ Len(app.items) = 2
    /\ ItemsAreStore(app)

-----------------------------------------------------------------------------
(* The view after a search has found a line *)

MaxHeight == 4  \* the greatest height of the log view a search is tried with

(* The view of a shows line i, h lines high, and lies within the buffer *)
CentredOn(a, i, h) ==
    LET len == Len(a.log_buffer)
        offset == Val(a.log_scroll_offset)
    IN /\ IsSome(a.log_scroll_offset)
       /\ offset = Centred(i, h, len)
       /\ offset <= i
       /\ i < offset + h
       /\ offset >= 0
       /\ offset + h <= len \/ offset = 0

(* The search s, when it finds a line, leaves the view on it *)
FoundIsShown(s, h) ==
    "search:found" \in s.ops
        => /\ IsSome(s.app.log_search_match_line)
           /\ CentredOn(s.app, Val(s.app.log_search_match_line), h)

(* C39: whenever a search (next, previous, or the resolution of a pending   *)
(* search on a merge) finds a match at index i, with h >= 1 lines visible   *)
(* and len lines in the buffer, the view is paused at                       *)
(* min(max(i - h/2, 0), max(len - h, 0)): offset <= i < offset + h, and the *)
(* view does not extend past either end of the buffer.                      *)
C39_MatchCentred ==
    /\ \A h \in 1..MaxHeight :
          /\ FoundIsShown(log_search_next_with_height(World, h), h)
          /\ FoundIsShown(log_search_prev_with_height(World, h), h)
    /\ ("search:found" \in lastOps \/ "resolve:found" \in lastOps)
          => /\ IsSome(app.log_search_match_line)
             /\ CentredOn(app, Val(app.log_search_match_line), log_visible_height)

(* A search has found the last of three lines: the view is moved down *)
C39_Witness ==
    /\ "search:found" \in lastOps
    /\ Len(app.log_buffer) = MAX_LOG_LINES
    /\ app.log_search_match_line = Some(MAX_LOG_LINES - 1)
    /\ app.log_scroll_offset = Some(MAX_LOG_LINES - log_visible_height)

-----------------------------------------------------------------------------
(* The history fetches of one log session *)

(* The fetches that take the tail window from its initial size to N *)
FetchBound == (MAX_LOG_LINES - LOG_TAIL_INIT) \div LOG_TAIL_STEP

(* load_more_history is called with every fetch of the session spent *)
RequestAtBound ==
    /\ RequestedNext
    /\ "start" \notin lastOps'
    /\ rt.fetches = FetchBound

=============================================================================
